---- MODULE Spec2Model ----
(***************************************************************************)
(* IBM 1130 emulator core: CpuState (src/src/cpu/state.rs), the executor   *)
(* (src/src/cpu/executor.rs), the instruction encoding and the Assembler   *)
(* (src/src/assembler.rs), and the loop that drives a loaded program       *)
(* (src/src/challenge.rs, src/src/wasm.rs).                                *)
(*                                                                         *)
(* A CpuState value is the record Self; every method of the Rust impl is   *)
(* an operator from a CpuState (and its arguments) to the pair             *)
(* [s |-> CpuState after the call, r |-> returned value].  The `?` of the  *)
(* Rust code is Try: an Err returns at once with the state as it is then.  *)
(***************************************************************************)
EXTENDS Integers, Sequences, FiniteSets, TLC

VARIABLES
    acc, ext, iar, carry, overflow, memory, halted,   \* CpuState fields
    cycle_count, instruction_count,                   \* CpuState counters
    op,                 \* the call made last: its name and arguments
    ret,                \* what that call returned
    nops,               \* number of calls made so far
    waited,             \* history: a WAIT executed and no reset, hard_reset or resume since
    executed,           \* history: successful execute calls since the last reset
    overflow_checks,    \* build profile: are integer overflow checks compiled in
    instr,              \* the Instruction given to encode_instruction
    word,               \* what encode_instruction returned
    decoded,            \* what decode_instruction returned for that word
    current_addr,       \* Assembler field: the cursor
    source,             \* the text given to assemble
    assembled,          \* what assemble returned
    assemblies,         \* number of assemble calls made on the Assembler
    token,              \* the text given to a parsing function
    parse_ret,          \* what the parsing function returned
    load_addr,          \* driver: the address the program was loaded at
    max_cycles,         \* driver: the iteration budget of the loop
    cycles_run,         \* driver: iterations of the loop begun so far
    outcome             \* driver: what the loop ended with

cpu   == <<acc, ext, iar, carry, overflow, memory, halted,
           cycle_count, instruction_count>>
calls == <<op, ret, nops, waited, executed>>
codec == <<instr, word, decoded>>
asm   == <<current_addr, source, assembled, assemblies, token, parse_ret>>
driver == <<load_addr, max_cycles, cycles_run, outcome>>
vars  == <<cpu, calls, overflow_checks, codec, asm, driver>>

-----------------------------------------------------------------------------
(* Program constants *)

MEMORY_SIZE == 4096
XR1_ADDR == 1
PROGRAM_START == 16
U16 == 65536

(* Bounds of the model *)

\* at most this many calls are made on one CpuState
MaxOps == 3
\* load_program is given at most this many words
MaxLen == 2
\* assemble is given at most this many lines
MaxLines == 3
\* assemble calls made on one Assembler
MaxCalls == 3

-----------------------------------------------------------------------------
(* 16-bit arithmetic *)

wrapping_add(a, b) == (a + b) % U16
wrapping_sub(a, b) == (a - b + U16) % U16

\* u16 as i16
as_i16(a) == IF a >= 32768 THEN a - U16 ELSE a
\* i16 as u16
as_u16(a) == IF a < 0 THEN a + U16 ELSE a

RECURSIVE Pow2(_)
Pow2(n) == IF n = 0 THEN 1 ELSE 2 * Pow2(n - 1)

RECURSIVE BitAndN(_, _, _)
BitAndN(a, b, n) ==
    IF n = 0 THEN 0
    ELSE (IF a % 2 = 1 /\ b % 2 = 1 THEN 1 ELSE 0)
         + 2 * BitAndN(a \div 2, b \div 2, n - 1)

RECURSIVE BitOrN(_, _, _)
BitOrN(a, b, n) ==
    IF n = 0 THEN 0
    ELSE (IF a % 2 = 1 \/ b % 2 = 1 THEN 1 ELSE 0)
         + 2 * BitOrN(a \div 2, b \div 2, n - 1)

\* a & b and a | b on u16
BitAnd(a, b) == BitAndN(a, b, 16)
BitOr(a, b) == BitOrN(a, b, 16)

\* a << n on u16 for n < 16: bits shifted out of the word are lost
Shl(a, n) == (a * Pow2(n)) % U16
\* a >> n on i16 for n < 16: arithmetic, rounds toward minus infinity
Sar(a, n) == a \div Pow2(n)
\* a >> n on u16 for n < 16
Shr(a, n) == a \div Pow2(n)

-----------------------------------------------------------------------------
(* Returned values *)

OkUnit == [tag |-> "Ok", val |-> 0]
OkVal(v) == [tag |-> "Ok", val |-> v]
MemoryOutOfBounds(a) == [tag |-> "MemoryOutOfBounds", val |-> a]
IarOutOfBounds(a) == [tag |-> "IarOutOfBounds", val |-> a]
Halted == [tag |-> "Halted", val |-> 0]
\* the call did not return: an overflow check of the build panicked
Panic == [tag |-> "Panic", val |-> 0]
\* no call made yet
NoRet == [tag |-> "None", val |-> 0]

IsOk(r) == r.tag = "Ok"

Res(s, r) == [s |-> s, r |-> r]

\* `first?` followed by `rest`: rest sees the state first left and its value.
\* (first is bound by a quantifier so that it is evaluated once.)
Try(first, rest(_)) ==
    CHOOSE res \in {IF IsOk(f.r) THEN rest(f) ELSE f : f \in {first}} : TRUE

-----------------------------------------------------------------------------
(* CpuState *)

\* memory: [u16; MEMORY_SIZE] is kept as the function from the addresses that
\* hold a non-zero word to that word; every other address below MEMORY_SIZE
\* holds 0.  Two memories are equal exactly when their functions are.
ZeroMemory == [a \in {} |-> 0]

\* memory[addr], for addr < MEMORY_SIZE
Get(m, addr) == IF addr \in DOMAIN m THEN m[addr] ELSE 0

\* memory[addr] = value, for addr < MEMORY_SIZE
Put(m, addr, value) ==
    LET D == IF value = 0 THEN DOMAIN m \ {addr} ELSE DOMAIN m \cup {addr}
    IN  [a \in D |-> IF a = addr THEN value ELSE m[a]]

\* memory[start..start + data.len()].copy_from_slice(data)
RECURSIVE copy_from_slice(_, _, _)
copy_from_slice(m, start, data) ==
    IF data = <<>> THEN m
    ELSE copy_from_slice(Put(m, start, Head(data)), start + 1, Tail(data))

new == [acc |-> 0, ext |-> 0, iar |-> PROGRAM_START, carry |-> FALSE,
        overflow |-> FALSE, memory |-> ZeroMemory, halted |-> FALSE,
        cycle_count |-> 0, instruction_count |-> 0]

\* reset that keeps the extension register
reset_keeps_ext(s) == [s EXCEPT !.acc = 0, !.iar = PROGRAM_START,
                                !.carry = FALSE, !.overflow = FALSE, !.halted = FALSE,
                                !.cycle_count = 0, !.instruction_count = 0]

reset(s) == [s EXCEPT !.acc = 0, !.ext = 0, !.iar = PROGRAM_START,
                      !.carry = FALSE, !.overflow = FALSE, !.halted = FALSE,
                      !.cycle_count = 0, !.instruction_count = 0]

\* hard_reset that leaves memory as it is
hard_reset_keeps_memory(s) == reset(s)

hard_reset(s) == [reset(s) EXCEPT !.memory = ZeroMemory]

read_acc(s) == s.acc
write_acc(s, value) == [s EXCEPT !.acc = value]
write_ext(s, value) == [s EXCEPT !.ext = value]

\* set_iar with the bound off by one
set_iar_gt(s, addr) ==
    IF addr > MEMORY_SIZE
    THEN Res(s, IarOutOfBounds(addr))
    ELSE Res([s EXCEPT !.iar = addr], OkUnit)

set_iar(s, addr) ==
    IF addr >= MEMORY_SIZE
    THEN Res(s, IarOutOfBounds(addr))
    ELSE Res([s EXCEPT !.iar = addr], OkUnit)

\* increment_iar assigning the wrapped sum without the bounds check
increment_iar_unchecked(s) == Res([s EXCEPT !.iar = wrapping_add(s.iar, 1)], OkUnit)
increment_iar(s) == set_iar(s, wrapping_add(s.iar, 1))

\* read_xr1 reading the word after XR1
read_xr1_next_word(s) == Get(s.memory, XR1_ADDR + 1)
read_xr1(s) == Get(s.memory, XR1_ADDR)
write_xr1(s, value) == [s EXCEPT !.memory = Put(@, XR1_ADDR, value)]

\* read_word refused on a halted CpuState
read_word_unless_halted(s, addr) ==
    IF s.halted THEN Res(s, Halted)
    ELSE IF addr >= MEMORY_SIZE
    THEN Res(s, MemoryOutOfBounds(addr))
    ELSE Res(s, OkVal(Get(s.memory, addr)))

read_word(s, addr) ==
    IF addr >= MEMORY_SIZE
    THEN Res(s, MemoryOutOfBounds(addr))
    ELSE Res(s, OkVal(Get(s.memory, addr)))

\* write_word with the bound off by one
write_word_gt(s, addr, value) ==
    IF addr > MEMORY_SIZE
    THEN Res(s, MemoryOutOfBounds(addr))
    ELSE Res([s EXCEPT !.memory = Put(@, addr, value)], OkUnit)

write_word(s, addr, value) ==
    IF addr >= MEMORY_SIZE
    THEN Res(s, MemoryOutOfBounds(addr))
    ELSE Res([s EXCEPT !.memory = Put(@, addr, value)], OkUnit)

\* load_program refusing a program that ends at the last word of memory
load_program_ge(s, start_addr, data) ==
    IF start_addr + Len(data) >= MEMORY_SIZE
    THEN Res(s, MemoryOutOfBounds(start_addr))
    ELSE Res([s EXCEPT !.memory = copy_from_slice(@, start_addr, data)], OkUnit)

load_program(s, start_addr, data) ==
    IF start_addr + Len(data) > MEMORY_SIZE
    THEN Res(s, MemoryOutOfBounds(start_addr))
    ELSE Res([s EXCEPT !.memory = copy_from_slice(@, start_addr, data)], OkUnit)

sign(a) == BitAnd(a, 32768) # 0

\* update_flags_add taking the carry from the sign bits alone
update_flags_add_sign(s, a, b, result) ==
    [s EXCEPT !.carry = sign(a) /\ sign(b),
              !.overflow = (sign(a) = sign(b)) /\ (sign(a) # sign(result))]

update_flags_add(s, a, b, result) ==
    [s EXCEPT !.carry = result < a,
              !.overflow = (sign(a) = sign(b)) /\ (sign(a) # sign(result))]

\* update_flags_sub with the overflow rule of the addition
update_flags_sub_as_add(s, a, b, result) ==
    [s EXCEPT !.carry = a < b,
              !.overflow = (sign(a) = sign(b)) /\ (sign(a) # sign(result))]

update_flags_sub(s, a, b, result) ==
    [s EXCEPT !.carry = a < b,
              !.overflow = (sign(a) # sign(b)) /\ (sign(a) # sign(result))]

is_halted(s) == s.halted
halt(s) == [s EXCEPT !.halted = TRUE]
resume(s) == [s EXCEPT !.halted = FALSE]
\* tick counting nothing
tick_none(s) == s
tick(s) == [s EXCEPT !.cycle_count = @ + 1]
count_instruction(s) == [s EXCEPT !.instruction_count = @ + 1]

-----------------------------------------------------------------------------
(* Executor *)

Direct == "Direct"
Indexed == "Indexed"
AddressingMode == {Direct, Indexed}
BranchCondition == {"Zero", "NonZero", "Positive", "Negative", "Overflow", "Carry"}

\* the Instruction variants with an address and a mode, with an address only,
\* with a shift count
ModeOps == {"LD", "STO", "A", "S", "AND", "OR"}
AddrOps == {"LDX", "STX", "BSI"}
ShiftOps == {"SLA", "SRA"}

\* the indexed address not wrapped to 16 bits
effective_address_nowrap(s, addr, mode) ==
    IF mode = Direct THEN addr ELSE addr + read_xr1(s)

effective_address(s, addr, mode) ==
    IF mode = Direct THEN addr ELSE wrapping_add(addr, read_xr1(s))

exec_ld(s, addr, mode) ==
    LET ea == effective_address(s, addr, mode)
    IN  Try(read_word(s, ea), LAMBDA f : Res(write_acc(f.s, f.r.val), OkUnit))

\* exec_sto that moves the IAR on after the store
exec_sto_advances(s, addr, mode) ==
    LET ea == effective_address(s, addr, mode)
        value == read_acc(s)
    IN  Try(write_word(s, ea, value), LAMBDA f : increment_iar(f.s))

exec_sto(s, addr, mode) ==
    LET ea == effective_address(s, addr, mode)
        value == read_acc(s)
    IN  Try(write_word(s, ea, value), LAMBDA f : Res(f.s, OkUnit))

exec_ldx(s, addr) ==
    Try(read_word(s, addr), LAMBDA f : Res(write_xr1(f.s, f.r.val), OkUnit))

\* exec_stx storing at the indexed address
exec_stx_indexed(s, addr) ==
    LET value == read_xr1(s)
    IN  Try(write_word(s, wrapping_add(addr, value), value), LAMBDA f : Res(f.s, OkUnit))

exec_stx(s, addr) ==
    LET value == read_xr1(s)
    IN  Try(write_word(s, addr, value), LAMBDA f : Res(f.s, OkUnit))

exec_add(s, addr, mode) ==
    LET ea == effective_address(s, addr, mode)
    IN  Try(read_word(s, ea), LAMBDA f :
            LET operand == f.r.val
                a == read_acc(f.s)
                result == wrapping_add(a, operand)
            IN  Res(update_flags_add(write_acc(f.s, result), a, operand, result),
                    OkUnit))

exec_sub(s, addr, mode) ==
    LET ea == effective_address(s, addr, mode)
    IN  Try(read_word(s, ea), LAMBDA f :
            LET operand == f.r.val
                a == read_acc(f.s)
                result == wrapping_sub(a, operand)
            IN  Res(update_flags_sub(write_acc(f.s, result), a, operand, result),
                    OkUnit))

\* exec_and that clears the carry flag as it writes the accumulator
exec_and_clears_carry(s, addr, mode) ==
    LET ea == effective_address(s, addr, mode)
    IN  Try(read_word(s, ea), LAMBDA f :
            Res([write_acc(f.s, BitAnd(read_acc(f.s), f.r.val)) EXCEPT !.carry = FALSE],
                OkUnit))

exec_and(s, addr, mode) ==
    LET ea == effective_address(s, addr, mode)
    IN  Try(read_word(s, ea), LAMBDA f :
            Res(write_acc(f.s, BitAnd(read_acc(f.s), f.r.val)), OkUnit))

exec_or(s, addr, mode) ==
    LET ea == effective_address(s, addr, mode)
    IN  Try(read_word(s, ea), LAMBDA f :
            Res(write_acc(f.s, BitOr(read_acc(f.s), f.r.val)), OkUnit))

\* `acc << count` of a u16 by a u8: a count of 16 or more panics where overflow
\* checks are compiled in and is taken modulo 16 where they are not
exec_sla(s, count) ==
    IF count >= 16 /\ overflow_checks
    THEN Res(s, Panic)
    ELSE Res(write_acc(s, Shl(read_acc(s), count % 16)), OkUnit)

\* exec_sra that keeps the word it shifted in ext
exec_sra_into_ext(s, count) ==
    IF count >= 16 /\ overflow_checks
    THEN Res(s, Panic)
    ELSE Res(write_ext(write_acc(s, as_u16(Sar(as_i16(read_acc(s)), count % 16))),
                       read_acc(s)),
             OkUnit)

\* `(acc as i16) >> count`: likewise
exec_sra(s, count) ==
    IF count >= 16 /\ overflow_checks
    THEN Res(s, Panic)
    ELSE Res(write_acc(s, as_u16(Sar(as_i16(read_acc(s)), count % 16))), OkUnit)

\* Positive taken as "not negative"
should_branch_nonneg(s, condition) ==
    CASE condition = "Zero" -> read_acc(s) = 0
      [] condition = "NonZero" -> read_acc(s) # 0
      [] condition = "Positive" -> as_i16(read_acc(s)) >= 0
      [] condition = "Negative" -> as_i16(read_acc(s)) < 0
      [] condition = "Overflow" -> s.overflow
      [] condition = "Carry" -> s.carry

should_branch(s, condition) ==
    CASE condition = "Zero" -> read_acc(s) = 0
      [] condition = "NonZero" -> read_acc(s) # 0
      [] condition = "Positive" -> as_i16(read_acc(s)) > 0
      [] condition = "Negative" -> as_i16(read_acc(s)) < 0
      [] condition = "Overflow" -> s.overflow
      [] condition = "Carry" -> s.carry

\* exec_bsc that branches one word short, leaving the last step to the caller
exec_bsc_one_short(s, addr, condition) ==
    IF should_branch(s, condition)
    THEN Try(set_iar(s, wrapping_sub(addr, 1)), LAMBDA f : Res(f.s, OkUnit))
    ELSE Res(s, OkUnit)

exec_bsc(s, addr, condition) ==
    IF should_branch(s, condition)
    THEN Try(set_iar(s, addr), LAMBDA f : Res(f.s, OkUnit))
    ELSE Res(s, OkUnit)

\* the word stored is the address branched to
exec_bsi_stores_target(s, addr) ==
    LET return_addr == wrapping_add(addr, 1)
    IN  Try(write_word(s, addr, return_addr), LAMBDA f :
            Try(set_iar(f.s, wrapping_add(addr, 1)), LAMBDA g : Res(g.s, OkUnit)))

exec_bsi(s, addr) ==
    LET return_addr == s.iar
    IN  Try(write_word(s, addr, return_addr), LAMBDA f :
            Try(set_iar(f.s, wrapping_add(addr, 1)), LAMBDA g : Res(g.s, OkUnit)))

dispatch(s, i) ==
    CASE i.op = "LD" -> exec_ld(s, i.addr, i.mode)
      [] i.op = "STO" -> exec_sto(s, i.addr, i.mode)
      [] i.op = "LDX" -> exec_ldx(s, i.addr)
      [] i.op = "STX" -> exec_stx(s, i.addr)
      [] i.op = "A" -> exec_add(s, i.addr, i.mode)
      [] i.op = "S" -> exec_sub(s, i.addr, i.mode)
      [] i.op = "AND" -> exec_and(s, i.addr, i.mode)
      [] i.op = "OR" -> exec_or(s, i.addr, i.mode)
      [] i.op = "SLA" -> exec_sla(s, i.count)
      [] i.op = "SRA" -> exec_sra(s, i.count)
      [] i.op = "BSC" -> exec_bsc(s, i.addr, i.condition)
      [] i.op = "BSI" -> exec_bsi(s, i.addr)
      [] i.op = "WAIT" -> Res(halt(s), OkUnit)
      [] i.op = "NOP" -> Res(s, OkUnit)

\* execute without the halted check
execute_unchecked(s, i) ==
    Try(dispatch(s, i), LAMBDA f : Res(tick(count_instruction(f.s)), OkUnit))

execute(s, i) ==
    IF is_halted(s)
    THEN Res(s, Halted)
    ELSE Try(dispatch(s, i), LAMBDA f : Res(tick(count_instruction(f.s)), OkUnit))

-----------------------------------------------------------------------------
(* Instruction encoding *)

\* AssemblerError values of decode_instruction, carrying the offending bits
InvalidCondition(modifier) == [tag |-> "InvalidCondition", val |-> modifier]
InvalidMnemonic(opc) == [tag |-> "InvalidMnemonic", val |-> opc]

\* the mode flag one bit too high
mode_bit_high(mode) == IF mode = Indexed THEN 2 ELSE 0

\* if matches!(mode, AddressingMode::Indexed) { 1 } else { 0 }
mode_bit(mode) == IF mode = Indexed THEN 1 ELSE 0

cond_bits(condition) ==
    CASE condition = "Zero" -> 0
      [] condition = "NonZero" -> 1
      [] condition = "Positive" -> 2
      [] condition = "Negative" -> 3
      [] condition = "Overflow" -> 4
      [] condition = "Carry" -> 5

\* pack without the mask of the address
pack_unmasked(base, field, addr) == BitOr(BitOr(base, Shl(field, 8)), addr)

\* base | (field << 8) | (addr & 0xFF)
pack(base, field, addr) == BitOr(BitOr(base, Shl(field, 8)), BitAnd(addr, \hFF))

encode_instruction(i) ==
    CASE i.op = "LD" -> OkVal(pack(\h1000, mode_bit(i.mode), i.addr))
      [] i.op = "STO" -> OkVal(pack(\h2000, mode_bit(i.mode), i.addr))
      [] i.op = "LDX" -> OkVal(BitOr(\h3000, BitAnd(i.addr, \hFF)))
      [] i.op = "STX" -> OkVal(BitOr(\h4000, BitAnd(i.addr, \hFF)))
      [] i.op = "A" -> OkVal(pack(\h5000, mode_bit(i.mode), i.addr))
      [] i.op = "S" -> OkVal(pack(\h6000, mode_bit(i.mode), i.addr))
      [] i.op = "AND" -> OkVal(pack(\h7000, mode_bit(i.mode), i.addr))
      [] i.op = "OR" -> OkVal(pack(\h8000, mode_bit(i.mode), i.addr))
      [] i.op = "SLA" -> OkVal(BitOr(\h9000, i.count))
      [] i.op = "SRA" -> OkVal(BitOr(\hA000, i.count))
      [] i.op = "BSC" -> OkVal(pack(\hB000, cond_bits(i.condition), i.addr))
      [] i.op = "BSI" -> OkVal(BitOr(\hC000, BitAnd(i.addr, \hFF)))
      [] i.op = "WAIT" -> OkVal(\hF000)
      [] i.op = "NOP" -> OkVal(0)

\* if modifier == 1 { Indexed } else { Direct }
decode_mode(modifier) == IF modifier = 1 THEN Indexed ELSE Direct

\* condition code 6 taken as a condition
decode_instruction_cond6(opcode) ==
    LET opc == BitAnd(Shr(opcode, 12), \hF)
        modifier == BitAnd(Shr(opcode, 8), \hF)
        addr == BitAnd(opcode, \hFF)
    IN  CASE opc = 0 -> OkVal([op |-> "NOP"])
          [] opc = 1 -> OkVal([op |-> "LD", addr |-> addr, mode |-> decode_mode(modifier)])
          [] opc = 2 -> OkVal([op |-> "STO", addr |-> addr, mode |-> decode_mode(modifier)])
          [] opc = 3 -> OkVal([op |-> "LDX", addr |-> addr])
          [] opc = 4 -> OkVal([op |-> "STX", addr |-> addr])
          [] opc = 5 -> OkVal([op |-> "A", addr |-> addr, mode |-> decode_mode(modifier)])
          [] opc = 6 -> OkVal([op |-> "S", addr |-> addr, mode |-> decode_mode(modifier)])
          [] opc = 7 -> OkVal([op |-> "AND", addr |-> addr, mode |-> decode_mode(modifier)])
          [] opc = 8 -> OkVal([op |-> "OR", addr |-> addr, mode |-> decode_mode(modifier)])
          [] opc = 9 -> OkVal([op |-> "SLA", count |-> BitAnd(opcode, \hFF)])
          [] opc = 10 -> OkVal([op |-> "SRA", count |-> BitAnd(opcode, \hFF)])
          [] opc = 11 ->
                CASE modifier = 0 -> OkVal([op |-> "BSC", addr |-> addr, condition |-> "Zero"])
                  [] modifier = 1 -> OkVal([op |-> "BSC", addr |-> addr, condition |-> "NonZero"])
                  [] modifier = 2 -> OkVal([op |-> "BSC", addr |-> addr, condition |-> "Positive"])
                  [] modifier = 3 -> OkVal([op |-> "BSC", addr |-> addr, condition |-> "Negative"])
                  [] modifier = 4 -> OkVal([op |-> "BSC", addr |-> addr, condition |-> "Overflow"])
                  [] modifier = 5 -> OkVal([op |-> "BSC", addr |-> addr, condition |-> "Carry"])
                  [] modifier = 6 -> OkVal([op |-> "BSC", addr |-> addr, condition |-> "Carry"])
                  [] OTHER -> InvalidCondition(modifier)
          [] opc = 12 -> OkVal([op |-> "BSI", addr |-> addr])
          [] opc = 15 -> OkVal([op |-> "WAIT"])
          [] OTHER -> InvalidMnemonic(opc)

decode_instruction(opcode) ==
    LET opc == BitAnd(Shr(opcode, 12), \hF)
        modifier == BitAnd(Shr(opcode, 8), \hF)
        addr == BitAnd(opcode, \hFF)
    IN  CASE opc = 0 -> OkVal([op |-> "NOP"])
          [] opc = 1 -> OkVal([op |-> "LD", addr |-> addr, mode |-> decode_mode(modifier)])
          [] opc = 2 -> OkVal([op |-> "STO", addr |-> addr, mode |-> decode_mode(modifier)])
          [] opc = 3 -> OkVal([op |-> "LDX", addr |-> addr])
          [] opc = 4 -> OkVal([op |-> "STX", addr |-> addr])
          [] opc = 5 -> OkVal([op |-> "A", addr |-> addr, mode |-> decode_mode(modifier)])
          [] opc = 6 -> OkVal([op |-> "S", addr |-> addr, mode |-> decode_mode(modifier)])
          [] opc = 7 -> OkVal([op |-> "AND", addr |-> addr, mode |-> decode_mode(modifier)])
          [] opc = 8 -> OkVal([op |-> "OR", addr |-> addr, mode |-> decode_mode(modifier)])
          [] opc = 9 -> OkVal([op |-> "SLA", count |-> BitAnd(opcode, \hFF)])
          [] opc = 10 -> OkVal([op |-> "SRA", count |-> BitAnd(opcode, \hFF)])
          [] opc = 11 ->
                CASE modifier = 0 -> OkVal([op |-> "BSC", addr |-> addr, condition |-> "Zero"])
                  [] modifier = 1 -> OkVal([op |-> "BSC", addr |-> addr, condition |-> "NonZero"])
                  [] modifier = 2 -> OkVal([op |-> "BSC", addr |-> addr, condition |-> "Positive"])
                  [] modifier = 3 -> OkVal([op |-> "BSC", addr |-> addr, condition |-> "Negative"])
                  [] modifier = 4 -> OkVal([op |-> "BSC", addr |-> addr, condition |-> "Overflow"])
                  [] modifier = 5 -> OkVal([op |-> "BSC", addr |-> addr, condition |-> "Carry"])
                  [] OTHER -> InvalidCondition(modifier)
          [] opc = 12 -> OkVal([op |-> "BSI", addr |-> addr])
          [] opc = 15 -> OkVal([op |-> "WAIT"])
          [] OTHER -> InvalidMnemonic(opc)

-----------------------------------------------------------------------------
(* Text.  A &str is the sequence of its characters, each character a string   *)
(* of length 1; the characters are ASCII.                                     *)

LowerCase == <<"a", "b", "c", "d", "e", "f", "g", "h", "i", "j", "k", "l", "m",
               "n", "o", "p", "q", "r", "s", "t", "u", "v", "w", "x", "y", "z">>
UpperCase == <<"A", "B", "C", "D", "E", "F", "G", "H", "I", "J", "K", "L", "M",
               "N", "O", "P", "Q", "R", "S", "T", "U", "V", "W", "X", "Y", "Z">>
\* the digits of from_str_radix, by value, in both cases
DigitsLower == <<"0", "1", "2", "3", "4", "5", "6", "7", "8", "9",
                 "a", "b", "c", "d", "e", "f">>
DigitsUpper == <<"0", "1", "2", "3", "4", "5", "6", "7", "8", "9",
                 "A", "B", "C", "D", "E", "F">>
\* char::is_whitespace
WhiteSpace == {" ", "\t", "\r", "\n"}

to_uppercase_char(c) ==
    IF \E k \in 1 .. 26 : LowerCase[k] = c
    THEN UpperCase[CHOOSE k \in 1 .. 26 : LowerCase[k] = c]
    ELSE c

\* str::to_uppercase
to_uppercase(s) == [k \in 1 .. Len(s) |-> to_uppercase_char(s[k])]

RECURSIVE trim_start(_)
trim_start(s) ==
    IF s # <<>> /\ Head(s) \in WhiteSpace THEN trim_start(Tail(s)) ELSE s

RECURSIVE trim_end(_)
trim_end(s) ==
    IF s # <<>> /\ s[Len(s)] \in WhiteSpace
    THEN trim_end(SubSeq(s, 1, Len(s) - 1))
    ELSE s

\* str::trim
trim(s) == trim_end(trim_start(s))

\* str::starts_with
starts_with(s, prefix) ==
    Len(s) >= Len(prefix) /\ SubSeq(s, 1, Len(prefix)) = prefix

\* str::find(char): the place of the first c of s, counted from 1; 0 is None
find(s, c) ==
    IF \E k \in 1 .. Len(s) : s[k] = c
    THEN CHOOSE k \in 1 .. Len(s) : s[k] = c /\ \A j \in 1 .. k - 1 : s[j] # c
    ELSE 0

\* str::lines: the text between the "\n", a "\r" before a "\n" dropped, no
\* line after the last "\n"
RECURSIVE lines(_)
lines(s) ==
    IF s = <<>> THEN <<>>
    ELSE LET n == find(s, "\n")
             raw == IF n = 0 THEN s ELSE SubSeq(s, 1, n - 1)
             line == IF n # 0 /\ raw # <<>> /\ raw[Len(raw)] = "\r"
                     THEN SubSeq(raw, 1, Len(raw) - 1)
                     ELSE raw
             rest == IF n = 0 THEN <<>> ELSE SubSeq(s, n + 1, Len(s))
         IN  <<line>> \o lines(rest)

\* str::split_whitespace().collect()
RECURSIVE split_whitespace(_)
split_whitespace(s) ==
    LET t == trim_start(s)
    IN  IF t = <<>> THEN <<>>
        ELSE LET ws == {k \in 1 .. Len(t) : t[k] \in WhiteSpace}
                 n == IF ws = {} THEN Len(t) + 1
                      ELSE CHOOSE k \in ws : \A j \in ws : k <= j
             IN  <<SubSeq(t, 1, n - 1)>> \o split_whitespace(SubSeq(t, n, Len(t)))

\* Err(ParseIntError)
ParseIntError == [tag |-> "ParseIntError", val |-> 0]

\* char::to_digit(radix): the value of the digit c, -1 for None
to_digit(c, radix) ==
    LET v == {k \in 1 .. radix : DigitsLower[k] = c \/ DigitsUpper[k] = c}
    IN  IF v = {} THEN -1 ELSE (CHOOSE k \in v : TRUE) - 1

RECURSIVE parse_digits(_, _, _, _)
parse_digits(digits, radix, max, result) ==
    IF digits = <<>> THEN OkVal(result)
    ELSE LET d == to_digit(Head(digits), radix)
         IN  IF d < 0 \/ result * radix + d > max
             THEN ParseIntError
             ELSE parse_digits(Tail(digits), radix, max, result * radix + d)

\* uN::from_str_radix(src, radix) for an unsigned type of greatest value max:
\* an optional "+", then at least one digit, the value at most max
from_str_radix(src, radix, max) ==
    IF src = <<>> THEN ParseIntError
    ELSE LET digits == IF Head(src) = "+" THEN Tail(src) ELSE src
         IN  IF digits = <<>> THEN ParseIntError
             ELSE parse_digits(digits, radix, max, 0)

-----------------------------------------------------------------------------
(* Assembler *)

InvalidMode(s) == [tag |-> "InvalidMode", val |-> s]
InvalidAddress(s) == [tag |-> "InvalidAddress", val |-> s]
MissingOperand(s) == [tag |-> "MissingOperand", val |-> s]
InvalidShiftCount(s) == [tag |-> "InvalidShiftCount", val |-> s]
SyntaxError(s) == [tag |-> "SyntaxError", val |-> s]
InvalidDataAddress(s) == [tag |-> "InvalidDataAddress", val |-> s]
InvalidDataValue(s) == [tag |-> "InvalidDataValue", val |-> s]

\* `r?` followed by `rest` on the value of r
Then(r, rest(_)) == IF IsOk(r) THEN rest(r.val) ELSE r

\* map_err(|_| err)
map_err(r, err) == IF IsOk(r) THEN r ELSE err

\* the mnemonics parse_line matches, as text
MnemonicText ==
    [LD |-> <<"L", "D">>, STO |-> <<"S", "T", "O">>, LDX |-> <<"L", "D", "X">>,
     STX |-> <<"S", "T", "X">>, A |-> <<"A">>, S |-> <<"S">>,
     AND |-> <<"A", "N", "D">>, OR |-> <<"O", "R">>, SLA |-> <<"S", "L", "A">>,
     SRA |-> <<"S", "R", "A">>, BSC |-> <<"B", "S", "C">>, BSI |-> <<"B", "S", "I">>,
     WAIT |-> <<"W", "A", "I", "T">>, NOP |-> <<"N", "O", "P">>]

\* the conditions BranchCondition::parse matches, as text
\* BranchCondition::to_str
to_str(c) ==
    CASE c = "Zero" -> <<"Z">>
      [] c = "NonZero" -> <<"N", "Z">>
      [] c = "Positive" -> <<"P">>
      [] c = "Negative" -> <<"N">>
      [] c = "Overflow" -> <<"V">>
      [] c = "Carry" -> <<"C">>

ConditionText ==
    [Zero |-> <<"Z">>, NonZero |-> <<"N", "Z">>, Positive |-> <<"P">>,
     Negative |-> <<"N">>, Overflow |-> <<"V">>, Carry |-> <<"C">>]

\* BranchCondition::parse matching the text as it is written
parse_condition_exact(s) ==
    IF \E c \in BranchCondition : ConditionText[c] = s
    THEN OkVal(CHOOSE c \in BranchCondition : ConditionText[c] = s)
    ELSE InvalidCondition(s)

\* BranchCondition::parse: Some(condition) as Ok, None as an error
parse_condition(s) ==
    LET u == to_uppercase(s)
    IN  IF \E c \in BranchCondition : ConditionText[c] = u
        THEN OkVal(CHOOSE c \in BranchCondition : ConditionText[c] = u)
        ELSE InvalidCondition(s)

parse_mode(s) ==
    CASE s = <<"0">> -> OkVal(Direct)
      [] s = <<"1">> -> OkVal(Indexed)
      [] OTHER -> InvalidMode(s)

parse_address(s) ==
    IF starts_with(s, <<"0", "x">>) \/ starts_with(s, <<"0", "X">>)
    THEN map_err(from_str_radix(SubSeq(s, 3, Len(s)), 16, 65535), InvalidAddress(s))
    ELSE map_err(from_str_radix(s, 10, 65535), InvalidAddress(s))

parse_shift_count(s) ==
    map_err(from_str_radix(s, 10, 255), InvalidShiftCount(s))

parse_org_directive(line) ==
    LET parts == split_whitespace(line)
    IN  IF Len(parts) < 2
        THEN SyntaxError("ORG directive requires an address")
        ELSE map_err(parse_address(parts[2]), InvalidDataAddress(parts[2]))

parse_data_directive(line) ==
    LET parts == split_whitespace(line)
    IN  IF Len(parts) < 3
        THEN SyntaxError("DATA directive requires address and value")
        ELSE Then(map_err(parse_address(parts[2]), InvalidDataAddress(parts[2])),
                  LAMBDA addr :
             Then(map_err(parse_address(parts[3]), InvalidDataValue(parts[3])),
                  LAMBDA value : OkVal(<<addr, value>>)))

\* parse_line matching the mnemonic as it is written
parse_line_exact_case(line) ==
    LET parts == split_whitespace(line)
    IN  IF parts = <<>> THEN SyntaxError("Empty line")
        ELSE LET mnemonic == parts[1]
                 known == {o \in DOMAIN MnemonicText : MnemonicText[o] = mnemonic}
                 o == CHOOSE o \in known : TRUE
             IN  IF known = {} THEN InvalidMnemonic(mnemonic)
                 ELSE CASE o \in ModeOps ->
                             IF Len(parts) < 3 THEN MissingOperand(mnemonic)
                             ELSE Then(parse_mode(parts[2]), LAMBDA mode :
                                  Then(parse_address(parts[3]), LAMBDA addr :
                                       OkVal([op |-> o, addr |-> addr, mode |-> mode])))
                        [] o \in AddrOps ->
                             IF Len(parts) < 2 THEN MissingOperand(mnemonic)
                             ELSE Then(parse_address(parts[2]), LAMBDA addr :
                                       OkVal([op |-> o, addr |-> addr]))
                        [] o \in ShiftOps ->
                             IF Len(parts) < 2 THEN MissingOperand(mnemonic)
                             ELSE Then(parse_shift_count(parts[2]), LAMBDA count :
                                       OkVal([op |-> o, count |-> count]))
                        [] o = "BSC" ->
                             IF Len(parts) < 3 THEN MissingOperand(mnemonic)
                             ELSE Then(parse_condition(parts[2]), LAMBDA condition :
                                  Then(parse_address(parts[3]), LAMBDA addr :
                                       OkVal([op |-> o, addr |-> addr,
                                              condition |-> condition])))
                        [] OTHER -> OkVal([op |-> o])

parse_line(line) ==
    LET parts == split_whitespace(line)
    IN  IF parts = <<>> THEN SyntaxError("Empty line")
        ELSE LET mnemonic == to_uppercase(parts[1])
                 known == {o \in DOMAIN MnemonicText : MnemonicText[o] = mnemonic}
                 o == CHOOSE o \in known : TRUE
             IN  IF known = {} THEN InvalidMnemonic(mnemonic)
                 ELSE CASE o \in ModeOps ->
                             IF Len(parts) < 3 THEN MissingOperand(mnemonic)
                             ELSE Then(parse_mode(parts[2]), LAMBDA mode :
                                  Then(parse_address(parts[3]), LAMBDA addr :
                                       OkVal([op |-> o, addr |-> addr, mode |-> mode])))
                        [] o \in AddrOps ->
                             IF Len(parts) < 2 THEN MissingOperand(mnemonic)
                             ELSE Then(parse_address(parts[2]), LAMBDA addr :
                                       OkVal([op |-> o, addr |-> addr]))
                        [] o \in ShiftOps ->
                             IF Len(parts) < 2 THEN MissingOperand(mnemonic)
                             ELSE Then(parse_shift_count(parts[2]), LAMBDA count :
                                       OkVal([op |-> o, count |-> count]))
                        [] o = "BSC" ->
                             IF Len(parts) < 3 THEN MissingOperand(mnemonic)
                             ELSE Then(parse_condition(parts[2]), LAMBDA condition :
                                  Then(parse_address(parts[3]), LAMBDA addr :
                                       OkVal([op |-> o, addr |-> addr,
                                              condition |-> condition])))
                        [] OTHER -> OkVal([op |-> o])

\* Ok(AssembledProgram { code, start_addr, listing })
AssembledProgram(code, start_addr, listing) ==
    OkVal([code |-> code, start_addr |-> start_addr, listing |-> listing])

\* AssemblyLine { address, opcode, source }
AssemblyLine(address, opcode, text) ==
    [address |-> address, opcode |-> opcode, source |-> text]

\* the Assembler and the Result an assemble call leaves
Asm(cursor, r) == [current_addr |-> cursor, r |-> r]

\* the loop of assemble over the lines ls, from the cursor, the code and the
\* listing of the lines before them
RECURSIVE assemble_lines(_, _, _, _, _)
assemble_lines(ls, cursor, start_addr, code, listing) ==
    IF ls = <<>> THEN Asm(cursor, AssembledProgram(code, start_addr, listing))
    ELSE LET pos == find(Head(ls), ";")
             line == trim(IF pos # 0 THEN SubSeq(Head(ls), 1, pos - 1) ELSE Head(ls))
         IN  IF line = <<>>
             THEN assemble_lines(Tail(ls), cursor, start_addr, code, listing)
             ELSE IF starts_with(to_uppercase(line), <<"O", "R", "G">>)
             THEN LET new_addr == parse_org_directive(line)
                  IN  IF IsOk(new_addr)
                      THEN assemble_lines(Tail(ls), new_addr.val, start_addr, code, listing)
                      ELSE Asm(cursor, new_addr)
             ELSE IF starts_with(to_uppercase(line), <<"D", "A", "T", "A">>)
             THEN LET data == parse_data_directive(line)
                  IN  IF IsOk(data)
                      THEN assemble_lines(Tail(ls), cursor, start_addr, code, listing)
                      ELSE Asm(cursor, data)
             ELSE LET parsed == Then(parse_line(line), LAMBDA i : encode_instruction(i))
                  IN  IF ~IsOk(parsed) THEN Asm(cursor, parsed)
                      ELSE IF cursor = U16 - 1 /\ overflow_checks
                      THEN Asm(cursor, Panic)
                      ELSE assemble_lines(Tail(ls), (cursor + 1) % U16, start_addr,
                                          Append(code, parsed.val),
                                          Append(listing,
                                                 AssemblyLine(cursor, parsed.val, line)))

\* Assembler::new()
new_assembler == PROGRAM_START

\* assemble(&mut self, source), self.current_addr being cursor
assemble(cursor, text) == assemble_lines(lines(text), cursor, cursor, <<>>, <<>>)

-----------------------------------------------------------------------------
(* Inputs of the calls *)

\* addresses given to the calls: XR1, the last word of memory and the first
\* address past it
Addrs == {1, 4095, 4096}
\* words given to the calls
Words == {1, 65535}
\* shift counts
Counts == {1, 16}

\* the variants that carry an address
HasAddr(i) == i.op \in ModeOps \cup AddrOps \cup {"BSC"}

InstructionsOver(addrs, counts) ==
    {[op |-> o, addr |-> a, mode |-> m] : o \in ModeOps, a \in addrs, m \in AddressingMode}
    \cup {[op |-> o, addr |-> a] : o \in AddrOps, a \in addrs}
    \cup {[op |-> "BSC", addr |-> a, condition |-> c] : a \in addrs, c \in BranchCondition}
    \cup {[op |-> o, count |-> c] : o \in ShiftOps, c \in counts}
    \cup {[op |-> "WAIT"], [op |-> "NOP"]}

Instructions == InstructionsOver(Addrs, Counts)

\* the programs given to load_program: of every length up to MaxLen, a
\* different word at each place
Programs == {[k \in 1 .. n |-> U16 - k] : n \in 0 .. MaxLen}

\* the pairs (acc, operand) of the arithmetic runs: around 0, around the sign
\* change, around the wrap, and some words between
ArithWords == {0, 1, 2, \h1234, \h4000, \h7FFE, \h7FFF, \h8000, \h8001,
               \hABCD, \hC000, \hFFFE, \hFFFF}

\* the Instructions given to encode_instruction: every address of one byte and
\* addresses with bits above bit 7, every shift count of a u8
CodecAddrs == (0 .. 255) \cup {\h100, \h123, \h1FF, \h200, \h423, \h800, \hF00,
                               \h1000, \h7023, \h8000, \hF0FF, \hFF00, \hFFFF}
CodecInstructions == InstructionsOver(CodecAddrs, 0 .. 255)

-----------------------------------------------------------------------------
(* The CpuState of the state and the calls made on it *)

Self == [acc |-> acc, ext |-> ext, iar |-> iar, carry |-> carry,
         overflow |-> overflow, memory |-> memory, halted |-> halted,
         cycle_count |-> cycle_count, instruction_count |-> instruction_count]

Set(s) ==
    /\ acc' = s.acc
    /\ ext' = s.ext
    /\ iar' = s.iar
    /\ carry' = s.carry
    /\ overflow' = s.overflow
    /\ memory' = s.memory
    /\ halted' = s.halted
    /\ cycle_count' = s.cycle_count
    /\ instruction_count' = s.instruction_count

IsExecute(o) == o.name = "execute"
IsReset(o) == o.name \in {"reset", "hard_reset"}

\* One call on the CpuState.  A panic ends the program: no call follows it.
Call(o, res) ==
    /\ nops < MaxOps
    /\ ret # Panic
    /\ Set(res.s)
    /\ ret' = res.r
    /\ op' = o
    /\ nops' = nops + 1
    /\ waited' = IF IsExecute(o) /\ o.instr.op = "WAIT" /\ IsOk(res.r) THEN TRUE
                 ELSE IF IsReset(o) \/ o.name = "resume" THEN FALSE
                 ELSE waited
    /\ executed' = IF IsExecute(o) /\ IsOk(res.r) THEN executed + 1
                   ELSE IF IsReset(o) THEN 0
                   ELSE executed
    /\ UNCHANGED <<overflow_checks, codec, asm, driver>>

NoOp == [name |-> "none"]

\* CpuState::new(), no call made yet
Fresh(s) ==
    /\ acc = s.acc
    /\ ext = s.ext
    /\ iar = s.iar
    /\ carry = s.carry
    /\ overflow = s.overflow
    /\ memory = s.memory
    /\ halted = s.halted
    /\ cycle_count = s.cycle_count
    /\ instruction_count = s.instruction_count
    /\ op = NoOp
    /\ ret = NoRet
    /\ nops = 0
    /\ waited = FALSE
    /\ executed = 0
    /\ overflow_checks \in BOOLEAN

NoCodec ==
    /\ instr = [op |-> "NOP"]
    /\ word = NoRet
    /\ decoded = NoRet

\* no text given to a parsing function
NoText ==
    /\ token = <<>>
    /\ parse_ret = NoRet

\* Assembler::new(), no text assembled yet
NoAsm ==
    /\ current_addr = new_assembler
    /\ source = <<>>
    /\ assembled = NoRet
    /\ assemblies = 0
    /\ NoText

\* no driving loop
NoDriver ==
    /\ load_addr = PROGRAM_START
    /\ max_cycles = 0
    /\ cycles_run = 0
    /\ outcome = NoRet

Init == Fresh(new) /\ NoCodec /\ NoAsm /\ NoDriver

Execute == \E i \in Instructions : Call([name |-> "execute", instr |-> i], execute(Self, i))
SetIar == \E a \in Addrs : Call([name |-> "set_iar", addr |-> a], set_iar(Self, a))
IncrementIar == Call([name |-> "increment_iar"], increment_iar(Self))
Reset == Call([name |-> "reset"], Res(reset(Self), OkUnit))
HardReset == Call([name |-> "hard_reset"], Res(hard_reset(Self), OkUnit))
ReadWord == \E a \in Addrs : Call([name |-> "read_word", addr |-> a], read_word(Self, a))
WriteWord ==
    \E a \in Addrs, v \in Words :
        Call([name |-> "write_word", addr |-> a, value |-> v], write_word(Self, a, v))
LoadProgram ==
    \E a \in Addrs, d \in Programs :
        Call([name |-> "load_program", addr |-> a, data |-> d], load_program(Self, a, d))
Halt == Call([name |-> "halt"], Res(halt(Self), OkUnit))
Resume == Call([name |-> "resume"], Res(resume(Self), OkUnit))
WriteAcc ==
    \E v \in Words : Call([name |-> "write_acc", value |-> v], Res(write_acc(Self, v), OkUnit))
WriteExt ==
    \E v \in Words : Call([name |-> "write_ext", value |-> v], Res(write_ext(Self, v), OkUnit))

Next ==
    \/ Execute
    \/ SetIar
    \/ IncrementIar
    \/ Reset
    \/ HardReset
    \/ ReadWord
    \/ WriteWord
    \/ LoadProgram
    \/ Halt
    \/ Resume
    \/ WriteAcc
    \/ WriteExt

Spec == Init /\ [][Next]_vars

-----------------------------------------------------------------------------
(* Arithmetic: A and S on a CpuState holding any pair (acc, operand).  The     *)
(* state is the one write_acc, write_word and set_carry / set_overflow leave.  *)

InitArith ==
    /\ \E a \in ArithWords, b \in ArithWords, x \in {0, 65535}, f \in BOOLEAN :
          Fresh([new EXCEPT !.acc = a, !.carry = f, !.overflow = f,
                            !.memory = Put(Put(ZeroMemory, 32, b), XR1_ADDR, x)])
    /\ NoCodec /\ NoAsm /\ NoDriver

ExecuteArith ==
    \E o \in {"A", "S"}, a \in {32, 33}, m \in AddressingMode :
        LET i == [op |-> o, addr |-> a, mode |-> m]
        IN  Call([name |-> "execute", instr |-> i], execute(Self, i))

NextArith == ExecuteArith

SpecArith == InitArith /\ [][NextArith]_vars

-----------------------------------------------------------------------------
(* Branches: BSC and BSI on a CpuState holding any acc and any flags, the     *)
(* state write_acc, set_carry, set_overflow, set_iar and write_word leave.    *)

\* branch targets: XR1, a word inside memory, the last two words of memory and
\* the first address past it
BranchAddrs == {1, 32, 4094, 4095, 4096}
\* accumulators: zero, the least and greatest positive, the least and greatest
\* negative
BranchWords == {0, 1, \h7FFF, \h8000, \hFFFF}

InitBranch ==
    /\ \E a \in BranchWords, c \in BOOLEAN, v \in BOOLEAN, p \in {PROGRAM_START, 4095} :
          Fresh([new EXCEPT !.acc = a, !.carry = c, !.overflow = v, !.iar = p,
                            !.memory = Put(ZeroMemory, 32, 65535)])
    /\ NoCodec /\ NoAsm /\ NoDriver

ExecuteBSC ==
    \E a \in BranchAddrs, c \in BranchCondition :
        LET i == [op |-> "BSC", addr |-> a, condition |-> c]
        IN  Call([name |-> "execute", instr |-> i], execute(Self, i))

ExecuteBSI ==
    \E a \in BranchAddrs :
        LET i == [op |-> "BSI", addr |-> a]
        IN  Call([name |-> "execute", instr |-> i], execute(Self, i))

NextBranch == ExecuteBSC \/ ExecuteBSI

SpecBranch == InitBranch /\ [][NextBranch]_vars

-----------------------------------------------------------------------------
(* Shifts: SLA and SRA on a CpuState holding any acc and any flags.           *)

\* shift counts of a u8: none, inside the word, the last inside the word, the
\* width of the word and beyond, the greatest
ShiftCounts == {0, 1, 3, 8, 15, 16, 17, 32, 255}

InitShift ==
    /\ \E a \in ArithWords, c \in BOOLEAN, v \in BOOLEAN :
          Fresh([new EXCEPT !.acc = a, !.carry = c, !.overflow = v])
    /\ NoCodec /\ NoAsm /\ NoDriver

ExecuteSLA ==
    \E c \in ShiftCounts :
        LET i == [op |-> "SLA", count |-> c]
        IN  Call([name |-> "execute", instr |-> i], execute(Self, i))

ExecuteSRA ==
    \E c \in ShiftCounts :
        LET i == [op |-> "SRA", count |-> c]
        IN  Call([name |-> "execute", instr |-> i], execute(Self, i))

NextShift == ExecuteSLA \/ ExecuteSRA

SpecShift == InitShift /\ [][NextShift]_vars

-----------------------------------------------------------------------------
(* Encoding and decoding: encode_instruction on an Instruction, then          *)
(* decode_instruction on the word it returned.                                *)

InitCodec ==
    /\ Fresh(new) /\ NoAsm /\ NoDriver
    /\ instr \in CodecInstructions
    /\ word = NoRet
    /\ decoded = NoRet

Encode ==
    /\ word = NoRet
    /\ word' = encode_instruction(instr)
    /\ UNCHANGED <<cpu, calls, overflow_checks, instr, decoded, asm, driver>>

Decode ==
    /\ IsOk(word)
    /\ decoded = NoRet
    /\ decoded' = decode_instruction(word.val)
    /\ UNCHANGED <<cpu, calls, overflow_checks, instr, word, asm, driver>>

NextCodec == Encode \/ Decode

SpecCodec == InitCodec /\ [][NextCodec]_vars

-----------------------------------------------------------------------------
(* Decoding: decode_instruction on any word, as read from memory.             *)

InitDecode ==
    /\ Fresh(new) /\ NoAsm /\ NoDriver
    /\ instr = [op |-> "NOP"]
    /\ word \in {OkVal(w) : w \in 0 .. U16 - 1}
    /\ decoded = NoRet

NextDecode == Decode

SpecDecode == InitDecode /\ [][NextDecode]_vars

-----------------------------------------------------------------------------
(* Assembling: assemble on a fresh Assembler, on any text of up to MaxLines   *)
(* lines.                                                                     *)

\* "LD 0 0x10"
Line_LD == <<"L", "D", " ", "0", " ", "0", "x", "1", "0">>
\* "WAIT"
Line_WAIT == <<"W", "A", "I", "T">>
\* ""
Line_Blank == <<>>
\* " ; note"
Line_Comment == <<" ", ";", " ", "n", "o", "t", "e">>
\* "ORG 0x20"
Line_ORG == <<"O", "R", "G", " ", "0", "x", "2", "0">>
\* "ORG 65535"
Line_ORGLast == <<"O", "R", "G", " ", "6", "5", "5", "3", "5">>
\* "DATA 16 15"
Line_DATA == <<"D", "A", "T", "A", " ", "1", "6", " ", "1", "5">>
\* "FOO 0 1"
Line_FOO == <<"F", "O", "O", " ", "0", " ", "1">>
\* "sto 1 5 ; x"
Line_sto == <<"s", "t", "o", " ", "1", " ", "5", " ", ";", " ", "x">>
\* "LD 0"
Line_LD0 == <<"L", "D", " ", "0">>
\* "ORG"
Line_ORGAlone == <<"O", "R", "G">>
\* "BSC Q 5"
Line_BSCQ == <<"B", "S", "C", " ", "Q", " ", "5">>

AsmLines == {Line_LD, Line_WAIT, Line_Blank, Line_Comment, Line_ORG, Line_ORGLast,
             Line_DATA, Line_FOO, Line_sto, Line_LD0, Line_ORGAlone, Line_BSCQ}

\* the lines joined by "\n"
RECURSIVE Join(_)
Join(ls) ==
    IF ls = <<>> THEN <<>>
    ELSE IF Len(ls) = 1 THEN ls[1]
    ELSE ls[1] \o <<"\n">> \o Join(Tail(ls))

SeqsUpTo(S, n) == UNION {[1 .. k -> S] : k \in 0 .. n}

Sources == {Join(ls) : ls \in SeqsUpTo(AsmLines, MaxLines)}

InitAsm ==
    /\ Fresh(new) /\ NoCodec /\ NoDriver
    /\ current_addr = new_assembler
    /\ source \in Sources
    /\ assembled = NoRet
    /\ assemblies = 0
    /\ NoText

Assemble ==
    /\ assembled.tag = "None"
    /\ LET a == assemble(current_addr, source)
       IN  /\ current_addr' = a.current_addr
           /\ assembled' = a.r
    /\ assemblies' = assemblies + 1
    /\ UNCHANGED <<cpu, calls, overflow_checks, codec, source, token, parse_ret, driver>>

NextAsm == Assemble

SpecAsm == InitAsm /\ [][NextAsm]_vars

-----------------------------------------------------------------------------
(* The driving loop: a program assembled by a fresh Assembler and loaded into *)
(* a CpuState that holds the data of challenge 2, then the loop               *)
(* "stop if halted; fetch memory[iar]; decode; execute; increment_iar".       *)

\* "A 0 0x11"
Line_A == <<"A", " ", "0", " ", "0", "x", "1", "1">>
\* "STO 0 0x12"
Line_STO == <<"S", "T", "O", " ", "0", " ", "0", "x", "1", "2">>

\* "LD 0 0x10\nA 0 0x11\nSTO 0 0x12\nWAIT"
AddProgram == Join(<<Line_LD, Line_A, Line_STO, Line_WAIT>>)

\* challenge_2_add_numbers: initial_memory
InitialMemory == <<<<16, 15>>, <<17, 27>>>>

\* where the program is loaded: 4 by the drivers of challenge.rs, any address
\* by WasmCpu::assemble
LoadAddrs == {4, PROGRAM_START}
\* the budget of the loop: 20 in the test, 200 the max_cycles of challenge 2
Budgets == {20, 200}

\* for (addr, value) in initial_memory { cpu.write_word(addr, value).unwrap() }
RECURSIVE write_initial_memory(_, _)
write_initial_memory(s, pairs) ==
    IF pairs = <<>> THEN s
    ELSE write_initial_memory(write_word(s, Head(pairs)[1], Head(pairs)[2]).s, Tail(pairs))

\* step with the increment left out once the instruction has halted the CPU
step_skips_when_halted(s, opcode) ==
    LET d == decode_instruction(opcode)
    IN  IF ~IsOk(d) THEN Res(s, d)
        ELSE Try(execute(s, d.val),
                 LAMBDA g : IF g.s.halted THEN g ELSE increment_iar(g.s))

\* WasmCpu::step
step(s, opcode) ==
    LET d == decode_instruction(opcode)
    IN  IF ~IsOk(d) THEN Res(s, d)
        ELSE Try(execute(s, d.val), LAMBDA g : increment_iar(g.s))

\* the body of the loop refusing the last word of memory before it executes
iteration_atomic(s) ==
    IF s.iar = MEMORY_SIZE - 1 THEN Res(s, IarOutOfBounds(MEMORY_SIZE))
    ELSE Try(read_word(s, s.iar), LAMBDA f : step(f.s, f.r.val))

\* the body of the loop after the halted test
iteration(s) ==
    Try(read_word(s, s.iar), LAMBDA f : step(f.s, f.r.val))

InitRun ==
    /\ \E a \in LoadAddrs, n \in Budgets :
          LET prog == assemble(new_assembler, AddProgram)
              data == write_initial_memory(new, InitialMemory)
              loaded == load_program(data, a, prog.r.val.code)
          IN  /\ Fresh(loaded.s)
              /\ current_addr = prog.current_addr
              /\ source = AddProgram
              /\ assembled = prog.r
              /\ assemblies = 1
              /\ NoText
              /\ load_addr = a
              /\ max_cycles = n
    /\ cycles_run = 0
    /\ outcome = NoRet
    /\ NoCodec

\* an iteration made without looking at the budget
Step_past_budget ==
    /\ outcome.tag = "None"
    /\ ~is_halted(Self)
    /\ \E res \in {iteration(Self)} :
          /\ Set(res.s)
          /\ outcome' = IF IsOk(res.r) THEN outcome ELSE res.r
    /\ cycles_run' = cycles_run + 1
    /\ UNCHANGED <<calls, overflow_checks, codec, asm, load_addr, max_cycles>>

\* one iteration of the loop on a CpuState that is not halted
Step ==
    /\ outcome.tag = "None"
    /\ cycles_run < max_cycles
    /\ ~is_halted(Self)
    /\ \E res \in {iteration(Self)} :
          /\ Set(res.s)
          /\ outcome' = IF IsOk(res.r) THEN outcome ELSE res.r
    /\ cycles_run' = cycles_run + 1
    /\ UNCHANGED <<calls, overflow_checks, codec, asm, load_addr, max_cycles>>

\* the loop left with Ok at any iteration
Finish_early ==
    /\ outcome.tag = "None"
    /\ outcome' = OkUnit
    /\ UNCHANGED <<cpu, calls, overflow_checks, codec, asm, load_addr, max_cycles,
                   cycles_run>>

\* the loop ends: break on halted, or the budget is used up
Finish ==
    /\ outcome.tag = "None"
    /\ is_halted(Self) \/ cycles_run = max_cycles
    /\ outcome' = OkUnit
    /\ UNCHANGED <<cpu, calls, overflow_checks, codec, asm, load_addr, max_cycles,
                   cycles_run>>

NextRun == Step \/ Finish

SpecRun == InitRun /\ [][NextRun]_vars

\* the loop runs on: an iteration that can be made is made
LiveRun == SpecRun /\ WF_vars(NextRun)

(***************************************************************************)
(* parse_line on instruction lines: a mnemonic, or a word that is none,    *)
(* followed by no, one, two or three operand tokens.                       *)
(***************************************************************************)

\* the first token of a line, with the mnemonic it spells ("none" if none)
LineSpellings ==
    {<<MnemonicText[o], o>> : o \in DOMAIN MnemonicText}
    \cup {<< <<"l", "d">>, "LD" >>, << <<"s", "T", "o">>, "STO" >>,
          << <<"a">>, "A" >>, << <<"o", "R">>, "OR" >>,
          << <<"b", "s", "c">>, "BSC" >>, << <<"l", "d", "x">>, "LDX" >>,
          << <<"S", "l", "a">>, "SLA" >>, << <<"b", "S", "i">>, "BSI" >>,
          << <<"w", "a", "i", "t">>, "WAIT" >>, << <<"n", "o", "p">>, "NOP" >>}
    \cup {<< <<"F", "O", "O">>, "none" >>, << <<"L">>, "none" >>,
          << <<"L", "D", "A">>, "none" >>, << <<"W", "A", "I", "T", "S">>, "none" >>,
          << <<"1">>, "none" >>}

\* what follows the first token: "", " 1", " 1 5", " Q", " Q 5", " Z 5",
\* "\t1  5 ", " 1 5 7"
LineOperands ==
    {<<>>, <<" ", "1">>, <<" ", "1", " ", "5">>, <<" ", "Q">>,
     <<" ", "Q", " ", "5">>, <<" ", "Z", " ", "5">>,
     <<"\t", "1", " ", " ", "5", " ">>, <<" ", "1", " ", "5", " ", "7">>}

LineTexts == {sp[1] \o ops : sp \in LineSpellings, ops \in LineOperands}

InitLine ==
    /\ Fresh(new) /\ NoCodec /\ NoDriver
    /\ current_addr = new_assembler
    /\ source = <<>>
    /\ assembled = NoRet
    /\ assemblies = 0
    /\ token \in LineTexts
    /\ parse_ret = NoRet

ParseLine ==
    /\ parse_ret.tag = "None"
    /\ parse_ret' = parse_line(token)
    /\ UNCHANGED <<cpu, calls, overflow_checks, codec, current_addr, source,
                   assembled, assemblies, token, driver>>

NextLine == ParseLine

SpecLine == InitLine /\ [][NextLine]_vars

(***************************************************************************)
(* assemble on a line that is, or looks like, a directive, followed by one *)
(* instruction line.                                                       *)
(***************************************************************************)

\* the first token of the first line, with what it is: ORG, DATA, a mnemonic
\* or "none"
DirectiveSpellings ==
    {<< <<"O", "R", "G">>, "ORG" >>, << <<"o", "r", "g">>, "ORG" >>,
     << <<"O", "r", "G">>, "ORG" >>,
     << <<"D", "A", "T", "A">>, "DATA" >>, << <<"d", "a", "t", "a">>, "DATA" >>,
     << <<"O", "R", "G", "X">>, "none" >>, << <<"O", "R", "G", "1">>, "none" >>,
     << <<"o", "r", "g", "a", "n">>, "none" >>,
     << <<"D", "A", "T", "A", "X">>, "none" >>, << <<"d", "a", "t", "a", "2">>, "none" >>,
     << <<"O", "R">>, "OR" >>, << <<"L", "D">>, "LD" >>,
     << <<"F", "O", "O">>, "none" >>, << <<"D", "A", "T">>, "none" >>}

\* what follows the first token: "", " 0x20", " 16 15", " 0 5"
DirectiveOperands ==
    {<<>>, <<" ", "0", "x", "2", "0">>, <<" ", "1", "6", " ", "1", "5">>,
     <<" ", "0", " ", "5">>}

DirectiveSources ==
    {Join(<<sp[1] \o ops, Line_LD>>) : sp \in DirectiveSpellings, ops \in DirectiveOperands}

InitDirective ==
    /\ Fresh(new) /\ NoCodec /\ NoDriver
    /\ current_addr = new_assembler
    /\ source \in DirectiveSources
    /\ assembled = NoRet
    /\ assemblies = 0
    /\ NoText

NextDirective == Assemble

SpecDirective == InitDirective /\ [][NextDirective]_vars

(***************************************************************************)
(* increment_iar from every value set_iar can give the IAR.                *)
(***************************************************************************)

InitIar ==
    /\ \E a \in 0 .. MEMORY_SIZE - 1 : Fresh(set_iar(new, a).s)
    /\ NoCodec /\ NoAsm /\ NoDriver

NextIar == IncrementIar

SpecIar == InitIar /\ [][NextIar]_vars

(***************************************************************************)
(* One Assembler used for several assemble calls, each on a text of its    *)
(* own.                                                                    *)
(***************************************************************************)

\* one instruction; an ORG and an instruction; a line that is refused; two
\* instructions; nothing but a comment; no line
ReuseSources == {Line_LD, Join(<<Line_ORG, Line_LD>>), Line_FOO,
                 Join(<<Line_LD, Line_WAIT>>), Line_Comment, <<>>}

AssembleText ==
    /\ assemblies < MaxCalls
    /\ \E text \in ReuseSources :
          LET a == assemble(current_addr, text)
          IN  /\ source' = text
              /\ current_addr' = a.current_addr
              /\ assembled' = a.r
    /\ assemblies' = assemblies + 1
    /\ UNCHANGED <<cpu, calls, overflow_checks, codec, token, parse_ret, driver>>

NextReuse == AssembleText

SpecReuse == Init /\ [][NextReuse]_vars

(***************************************************************************)
(* BranchCondition::parse on every text of up to MaxLen characters, and on *)
(* some longer ones.                                                       *)
(***************************************************************************)

CondChars == {"Z", "z", "N", "n", "P", "p", "V", "v", "C", "c", "X", "0", " "}
CondTokens ==
    SeqsUpTo(CondChars, MaxLen)
    \cup {<<"N", "Z", "Z">>, <<"n", "z", " ">>, <<"Z", "E", "R", "O">>}

InitCond ==
    /\ Fresh(new) /\ NoCodec /\ NoDriver
    /\ current_addr = new_assembler
    /\ source = <<>>
    /\ assembled = NoRet
    /\ assemblies = 0
    /\ token \in CondTokens
    /\ parse_ret = NoRet

ParseCondition ==
    /\ parse_ret.tag = "None"
    /\ parse_ret' = parse_condition(token)
    /\ UNCHANGED <<cpu, calls, overflow_checks, codec, current_addr, source,
                   assembled, assemblies, token, driver>>

NextCond == ParseCondition

SpecCond == InitCond /\ [][NextCond]_vars

(***************************************************************************)
(* WasmCpu::run on any small program.  The program is a few words loaded   *)
(* at the address the IAR then points to; XR1, the accumulator and the     *)
(* halted flag are set by the caller before run(max_cycles) is called.     *)
(***************************************************************************)

\* NOP, WAIT, A 1 0x10, STO 0 0x10, BSI 0x20, BSC Z 0x20, an opcode no
\* instruction has, SLA 16
LoopWords == {0, 61440, 20752, 8208, 49184, 45088, 53248, 36880}
\* where the program is loaded: the start of program memory, the last two words
LoopPlaces == {PROGRAM_START, MEMORY_SIZE - 2}
LoopXR1 == {0, MEMORY_SIZE - 1}
LoopAcc == {0, 1}
LoopBudgets == {0, 1, 3}

\* the programs: two words
LoopPrograms == LoopWords \X LoopWords

InitLoop ==
    /\ \E prog \in LoopPrograms, a \in LoopPlaces, x \in LoopXR1,
          v \in LoopAcc, h \in BOOLEAN, n \in LoopBudgets :
          LET indexed == write_xr1(new, x)
              loaded == load_program(indexed, a, prog).s
              pointed == set_iar(write_acc(loaded, v), a).s
          IN  /\ Fresh(IF h THEN halt(pointed) ELSE pointed)
              /\ load_addr = a
              /\ max_cycles = n
    /\ cycles_run = 0
    /\ outcome = NoRet
    /\ NoCodec
    /\ NoAsm

SpecLoop == InitLoop /\ [][NextRun]_vars

\* the loop runs on: an iteration that can be made is made
LiveLoop == SpecLoop /\ WF_vars(NextRun)

(***************************************************************************)
(* WasmCpu::assemble: the text is assembled by an Assembler of its own,    *)
(* the code loaded at start_addr, the listing returned with its addresses  *)
(* moved by start_addr - program.start_addr.                               *)
(***************************************************************************)

\* format!("0x{:04X}", opcode)
format_hex4(opcode) ==
    <<"0", "x", DigitsUpper[((opcode \div 4096) % 16) + 1],
      DigitsUpper[((opcode \div 256) % 16) + 1],
      DigitsUpper[((opcode \div 16) % 16) + 1],
      DigitsUpper[(opcode % 16) + 1]>>

\* ListingLine { address, opcode, source }
ListingLine(address, opcode, text) ==
    [address |-> address, opcode |-> opcode, source |-> text]

wasm_assemble(s, text, start_addr) ==
    LET a == assemble(new_assembler, text)
    IN  IF ~IsOk(a.r) THEN Res(s, a.r)
        ELSE LET program == a.r.val
                 loaded == load_program(s, start_addr, program.code)
                 addr_offset == wrapping_sub(start_addr, program.start_addr)
             IN  IF ~IsOk(loaded.r) THEN loaded
                 ELSE Res(loaded.s,
                          OkVal([k \in 1 .. Len(program.listing) |->
                                    ListingLine(wrapping_add(program.listing[k].address,
                                                             addr_offset),
                                                format_hex4(program.listing[k].opcode),
                                                program.listing[k].source)]))

WasmSources ==
    {Line_LD, Join(<<Line_LD, Line_WAIT>>), Join(<<Line_ORG, Line_LD>>),
     Join(<<Line_LD, Line_ORG, Line_WAIT>>), Join(<<Line_ORG, Line_LD, Line_WAIT>>),
     Join(<<Line_Comment, Line_LD>>), Join(<<Line_DATA, Line_sto>>), AddProgram,
     Line_FOO, Join(<<Line_ORGLast, Line_LD>>)}
WasmStarts == {4, PROGRAM_START, MEMORY_SIZE - 1}

InitWasm ==
    /\ Fresh(new) /\ NoCodec
    /\ current_addr = new_assembler
    /\ source \in WasmSources
    /\ assembled = NoRet
    /\ assemblies = 0
    /\ NoText
    /\ load_addr \in WasmStarts
    /\ max_cycles = 0
    /\ cycles_run = 0
    /\ outcome = NoRet

WasmAssemble ==
    /\ assembled.tag = "None"
    /\ \E res \in {wasm_assemble(Self, source, load_addr)} :
          /\ Set(res.s)
          /\ assembled' = res.r
    /\ assemblies' = assemblies + 1
    /\ UNCHANGED <<calls, overflow_checks, codec, current_addr, source, token,
                   parse_ret, driver>>

NextWasm == WasmAssemble

SpecWasm == InitWasm /\ [][NextWasm]_vars

(***************************************************************************)
(* run on an instruction in the last word of memory, called again by the   *)
(* caller after it has returned IarOutOfBounds.                            *)
(***************************************************************************)

\* the words of LoopWords, and A 0 1, which adds XR1 to the accumulator
RetryWords == LoopWords \cup {20481}
RetryBudgets == {1, 3}

InitRetry ==
    /\ \E w \in RetryWords, x \in LoopXR1, v \in LoopAcc, n \in RetryBudgets :
          LET indexed == write_xr1(new, x)
              loaded == write_word(indexed, MEMORY_SIZE - 1, w).s
          IN  /\ Fresh(set_iar(write_acc(loaded, v), MEMORY_SIZE - 1).s)
              /\ max_cycles = n
    /\ load_addr = MEMORY_SIZE - 1
    /\ cycles_run = 0
    /\ outcome = NoRet
    /\ NoCodec
    /\ NoAsm

\* the caller calls run(max_cycles) again
RunAgain ==
    /\ outcome.tag = "IarOutOfBounds"
    /\ instruction_count < MaxOps
    /\ outcome' = NoRet
    /\ cycles_run' = 0
    /\ UNCHANGED <<cpu, calls, overflow_checks, codec, asm, load_addr, max_cycles>>

NextRetry == Step \/ Finish \/ RunAgain

SpecRetry == InitRetry /\ [][NextRetry]_vars

(***************************************************************************)
(* One iteration of the loop on a word of any opcode, with XR1 anywhere:   *)
(* the instructions decode_instruction can give to execute.                *)
(***************************************************************************)

\* every top 4 bits, bits 11-8 clear, as a mode or a condition and beyond,
\* the low byte at both ends and between
FetchWords ==
    {top * 4096 + mid * 256 + low :
        top \in 0 .. 15, mid \in {0, 1, 2, 3, 5, 6, 15}, low \in {0, 1, 16, 255}}
\* XR1: none, one, 255 + XR1 at the last word, past it, far past it, wrapping
FetchXR1 == {0, 1, 3840, 3841, 4095, 65281, 65535}

InitFetch ==
    /\ \E w \in FetchWords, x \in FetchXR1, v \in LoopAcc :
          LET indexed == write_xr1(new, x)
              loaded == write_word(indexed, PROGRAM_START, w).s
          IN  Fresh(write_acc(loaded, v))
    /\ load_addr = PROGRAM_START
    /\ max_cycles = 1
    /\ cycles_run = 0
    /\ outcome = NoRet
    /\ NoCodec
    /\ NoAsm

SpecFetch == InitFetch /\ [][NextRun]_vars

(***************************************************************************)
(* execute of every instruction, with reset and hard_reset between, from   *)
(* states the setters reach: either flag set or clear, ext zero or not,    *)
(* halted or not.                                                          *)
(***************************************************************************)

FrameExt == {0, 48879}

InitFrame ==
    /\ \E c \in BOOLEAN, v \in BOOLEAN, x \in FrameExt, h \in BOOLEAN :
          Fresh([new EXCEPT !.carry = c, !.overflow = v, !.ext = x, !.halted = h])
    /\ NoCodec /\ NoAsm /\ NoDriver

NextFrame == Execute \/ Reset \/ HardReset

SpecFrame == InitFrame /\ [][NextFrame]_vars

-----------------------------------------------------------------------------
(* Properties *)

\* a u16 read as a signed 16-bit integer
Signed(a) == IF a >= 32768 THEN a - 65536 ELSE a

\* the memory cell an instruction with an address and a mode works on
Operand(i) ==
    Get(memory, IF i.mode = Direct THEN i.addr ELSE (i.addr + Get(memory, 1)) % 65536)

\* C1: once a WAIT has executed, every execute call, whatever the instruction,
\* returns CpuError::Halted and changes no component of the CpuState, until
\* reset, hard_reset or resume is called.
C1_HaltedRejectsExecute ==
    [][(waited /\ IsExecute(op')) => (ret' = Halted /\ cpu' = cpu)]_vars

\* a STO was given to a CpuState halted by WAIT, and was rejected
C1_Witness ==
    waited /\ IsExecute(op) /\ op.instr.op = "STO" /\ ret = Halted

\* C2: an execute call on a CpuState that is not halted and that returns
\* MemoryOutOfBounds or IarOutOfBounds leaves every component of the CpuState as
\* it was before the call.
C2_ErrorLeavesStateUnchanged ==
    [][(~halted /\ IsExecute(op') /\ ret'.tag \in {"MemoryOutOfBounds", "IarOutOfBounds"})
           => cpu' = cpu]_vars

\* C3: iar < MEMORY_SIZE (4096) in every state the public operations reach from
\* CpuState::new().
C3_IarInBounds == iar < 4096

\* the iar stands at the last word of memory and a call that would move it past
\* was refused
C3_Witness == iar = 4095 /\ ret.tag = "IarOutOfBounds"

\* C4: a successful execute adds exactly 1 to instruction_count and to cycle_count,
\* a failed execute leaves both, reset sets both to 0; so both always equal the
\* number of successful execute calls since the last reset.
C4_Counters ==
    [][/\ (IsExecute(op') /\ IsOk(ret'))
            => /\ instruction_count' = instruction_count + 1
               /\ cycle_count' = cycle_count + 1
       /\ (IsExecute(op') /\ ~IsOk(ret'))
            => /\ instruction_count' = instruction_count
               /\ cycle_count' = cycle_count
       /\ IsReset(op') => (instruction_count' = 0 /\ cycle_count' = 0)
       /\ cycle_count' = executed'
       /\ instruction_count' = executed']_vars

\* the second instruction counted is a BSC that did not branch
C4_Witness ==
    /\ IsExecute(op) /\ IsOk(ret)
    /\ op.instr.op = "BSC" /\ op.instr.condition = "NonZero" /\ acc = 0
    /\ instruction_count = 2 /\ cycle_count = 2

\* C5: decode_instruction(encode_instruction(i)) = Ok(i) for every Instruction i
\* whose addr is at most 0xFF.
C5_RoundTrip ==
    (decoded # NoRet /\ (HasAddr(instr) => instr.addr <= 255))
        => decoded = OkVal(instr)

\* an indexed instruction and a BSC on the last condition came back as given
C5_Witness ==
    /\ decoded = OkVal(instr)
    /\ \/ instr.op = "OR" /\ instr.mode = Indexed /\ instr.addr = 255
       \/ instr.op = "BSC" /\ instr.condition = "Carry" /\ instr.addr = 255

\* the top 4 bits of each variant's word
OpcodeOf(o) ==
    CASE o = "NOP" -> 0 [] o = "LD" -> 1 [] o = "STO" -> 2 [] o = "LDX" -> 3
      [] o = "STX" -> 4 [] o = "A" -> 5 [] o = "S" -> 6 [] o = "AND" -> 7
      [] o = "OR" -> 8 [] o = "SLA" -> 9 [] o = "SRA" -> 10 [] o = "BSC" -> 11
      [] o = "BSI" -> 12 [] o = "WAIT" -> 15

\* bits 11-8 of the word of an instruction with an address
FieldOf(i) ==
    IF i.op \in ModeOps THEN (IF i.mode = Indexed THEN 1 ELSE 0)
    ELSE IF i.op = "BSC"
         THEN CASE i.condition = "Zero" -> 0 [] i.condition = "NonZero" -> 1
                [] i.condition = "Positive" -> 2 [] i.condition = "Negative" -> 3
                [] i.condition = "Overflow" -> 4 [] i.condition = "Carry" -> 5
         ELSE 0

\* C6: for every variant with an address and every 16-bit addr, the word encoded
\* is the word encoded for addr & 0xFF: the bits of addr above bit 7 reach neither
\* the opcode nor the mode or condition field.
C6_AddressMasked ==
    (word # NoRet /\ HasAddr(instr))
        => /\ word = encode_instruction([instr EXCEPT !.addr = instr.addr % 256])
           /\ IsOk(word)
           /\ word.val \div 4096 = OpcodeOf(instr.op)
           /\ (word.val \div 256) % 16 = FieldOf(instr)
           /\ word.val % 256 = instr.addr % 256

\* address 0x123 was encoded as 0x23
C6_Witness ==
    /\ instr = [op |-> "LD", addr |-> 291, mode |-> Direct]
    /\ word = OkVal(4131)

\* C7: read_word and write_word return MemoryOutOfBounds(addr), and set_iar
\* returns IarOutOfBounds(addr), exactly when addr >= 4096, and then change
\* nothing; for addr <= 4095 they succeed, and a read_word following
\* write_word(addr, v) returns v.
C7_BoundsChecks ==
    [][/\ op'.name = "read_word"
            => /\ cpu' = cpu
               /\ IF op'.addr >= 4096 THEN ret' = MemoryOutOfBounds(op'.addr)
                  ELSE IsOk(ret')
       /\ op'.name = "write_word"
            => IF op'.addr >= 4096
               THEN ret' = MemoryOutOfBounds(op'.addr) /\ cpu' = cpu
               ELSE IsOk(ret')
       /\ (op.name = "write_word" /\ IsOk(ret)
           /\ op'.name = "read_word" /\ op'.addr = op.addr)
            => ret' = OkVal(op.value)
       /\ op'.name = "set_iar"
            => IF op'.addr >= 4096
               THEN ret' = IarOutOfBounds(op'.addr) /\ cpu' = cpu
               ELSE IsOk(ret') /\ iar' = op'.addr]_vars

\* the last word of memory was read back
C7_Witness ==
    op.name = "read_word" /\ op.addr = 4095 /\ ret = OkVal(65535)

\* C8: load_program(start_addr, words) fails with MemoryOutOfBounds exactly when
\* start_addr + len(words) > 4096 and then changes nothing; otherwise the words
\* are in memory from start_addr on and every other memory word, register, flag
\* and counter is as before.  (An address that holds 0 before and after the call
\* is outside both DOMAINs and is unchanged.)
C8_LoadProgram ==
    [][op'.name = "load_program"
           => LET a == op'.addr
                  d == op'.data
              IN  IF a + Len(d) > 4096
                  THEN ret'.tag = "MemoryOutOfBounds" /\ cpu' = cpu
                  ELSE /\ IsOk(ret')
                       /\ \A k \in 1 .. Len(d) : Get(memory', a + k - 1) = d[k]
                       /\ \A x \in DOMAIN memory \cup DOMAIN memory' :
                              (x < a \/ x >= a + Len(d))
                                  => Get(memory', x) = Get(memory, x)
                       /\ UNCHANGED <<acc, ext, iar, carry, overflow, halted,
                                      cycle_count, instruction_count>>]_vars

\* a program was loaded into the last word of a memory that held XR1 already
C8_Witness ==
    /\ op.name = "load_program" /\ IsOk(ret)
    /\ op.addr = 4095 /\ Len(op.data) = 1
    /\ Get(memory, 4095) = op.data[1]
    /\ Get(memory, 1) # 0

\* C9: a successful execute(A) leaves acc = (acc + operand) mod 2^16, carry set
\* exactly when acc + operand >= 2^16, and overflow set exactly when the sum of
\* the two words read as signed integers is outside -32768 .. 32767.
C9_AddFlags ==
    [][(IsExecute(op') /\ op'.instr.op = "A" /\ IsOk(ret'))
           => LET b == Operand(op'.instr)
              IN  /\ acc' = (acc + b) % 65536
                  /\ carry' = (acc + b >= 65536)
                  /\ overflow' = (Signed(acc) + Signed(b) \notin -32768 .. 32767)]_vars

\* 0x8000 + 0xFFFF: an addition that carried and overflowed
C9_Witness ==
    /\ IsExecute(op) /\ op.instr.op = "A" /\ IsOk(ret)
    /\ carry /\ overflow /\ acc = 32767

\* C10: a successful execute(S) leaves acc = (acc - operand) mod 2^16, carry set
\* exactly when acc < operand as unsigned words, and overflow set exactly when
\* the difference of the two words read as signed integers is outside
\* -32768 .. 32767.
C10_SubFlags ==
    [][(IsExecute(op') /\ op'.instr.op = "S" /\ IsOk(ret'))
           => LET b == Operand(op'.instr)
              IN  /\ acc' = (acc - b) % 65536
                  /\ carry' = (acc < b)
                  /\ overflow' = (Signed(acc) - Signed(b) \notin -32768 .. 32767)]_vars

\* a subtraction that borrowed and overflowed
C10_Witness ==
    /\ IsExecute(op) /\ op.instr.op = "S" /\ IsOk(ret)
    /\ carry /\ overflow /\ acc = 32768

\* every memory word outside A is as before the step (an address that holds 0
\* before and after is outside both DOMAINs)
MemoryUnchangedOutside(A) ==
    \A x \in (DOMAIN memory \cup DOMAIN memory') \ A : Get(memory', x) = Get(memory, x)

\* C11: on a CpuState that is not halted, LD, STO, A, S, AND and OR work on the
\* cell ea, where ea = (addr + memory[1]) mod 65536 in Indexed mode, memory[1]
\* read before the instruction, and ea = addr in Direct mode whatever XR1 is;
\* with ea >= 4096 the instruction fails with MemoryOutOfBounds(ea).
C11_IndexedAddressing ==
    [][(~halted /\ IsExecute(op') /\ op'.instr.op \in ModeOps)
           => LET i == op'.instr
                  k == Get(memory, 1)
                  ea == IF i.mode = Indexed THEN (i.addr + k) % 65536 ELSE i.addr
                  v == Get(memory, ea)
              IN  IF ea >= 4096
                  THEN ret' = MemoryOutOfBounds(ea)
                  ELSE /\ IsOk(ret')
                       /\ CASE i.op = "LD" -> acc' = v /\ memory' = memory
                            [] i.op = "STO" ->
                                  /\ Get(memory', ea) = acc
                                  /\ MemoryUnchangedOutside({ea})
                                  /\ acc' = acc
                            [] i.op = "A" -> acc' = (acc + v) % 65536 /\ memory' = memory
                            [] i.op = "S" -> acc' = (acc - v) % 65536 /\ memory' = memory
                            [] i.op = "AND" -> acc' = BitAnd(acc, v) /\ memory' = memory
                            [] i.op = "OR" -> acc' = BitOr(acc, v) /\ memory' = memory]_vars

\* LD 1 4096 with XR1 = 0xFFFF read the last word of memory: the sum wrapped
C11_Witness ==
    /\ IsExecute(op) /\ IsOk(ret)
    /\ op.instr = [op |-> "LD", addr |-> 4096, mode |-> Indexed]
    /\ Get(memory, 1) = 65535
    /\ acc # 0 /\ acc = Get(memory, 4095)

\* C12: reset() leaves acc, ext, cycle_count and instruction_count 0, carry,
\* overflow and halted false, iar = PROGRAM_START (0x0010) and every memory word
\* as it was; hard_reset() leaves the same registers and every memory word 0.
C12_ResetSemantics ==
    [][IsReset(op')
           => /\ acc' = 0 /\ ext' = 0 /\ cycle_count' = 0 /\ instruction_count' = 0
              /\ ~carry' /\ ~overflow' /\ ~halted'
              /\ iar' = 16
              /\ op'.name = "reset" => MemoryUnchangedOutside({})
              /\ op'.name = "hard_reset"
                    => \A x \in 0 .. MEMORY_SIZE - 1 : Get(memory', x) = 0]_vars

\* a reset after XR1 was written: the registers are back, XR1 is kept
C12_Witness ==
    /\ op.name = "reset" /\ nops = 3
    /\ Get(memory, 1) # 0
    /\ acc = 0 /\ iar = 16

\* a branch condition, in the state before the instruction
Holds(c) ==
    CASE c = "Zero" -> acc = 0
      [] c = "NonZero" -> acc # 0
      [] c = "Positive" -> Signed(acc) > 0
      [] c = "Negative" -> Signed(acc) < 0
      [] c = "Overflow" -> overflow
      [] c = "Carry" -> carry

\* C16: execute(BSC{addr, condition}) on a CpuState that is not halted sets iar
\* to addr when the condition holds and leaves iar as it was when it does not;
\* acc, carry, overflow and memory are never changed, and exactly one of Zero,
\* Positive, Negative holds for every acc.
C16_Branch ==
    [][(~halted /\ IsExecute(op') /\ op'.instr.op = "BSC")
           => /\ iar' = IF Holds(op'.instr.condition) THEN op'.instr.addr ELSE iar
              /\ UNCHANGED <<acc, carry, overflow, memory>>
              /\ Cardinality({c \in {"Zero", "Positive", "Negative"} : Holds(c)}) = 1]_vars

\* C16 amended: execute(BSC{addr, condition}) on a CpuState that is not halted
\* returns Ok with iar = addr when the condition holds and addr < 4096, returns
\* IarOutOfBounds(addr) with the CpuState as before when the condition holds and
\* addr >= 4096, and returns Ok with iar as before when the condition does not
\* hold; acc, carry, overflow and memory are never changed, and exactly one of
\* Zero, Positive, Negative holds for every acc.
C16_BranchInRange ==
    [][(~halted /\ IsExecute(op') /\ op'.instr.op = "BSC")
           => LET i == op'.instr
              IN  /\ CASE Holds(i.condition) /\ i.addr < 4096 ->
                               IsOk(ret') /\ iar' = i.addr
                        [] Holds(i.condition) /\ i.addr >= 4096 ->
                               ret' = IarOutOfBounds(i.addr) /\ cpu' = cpu
                        [] OTHER -> IsOk(ret') /\ iar' = iar
                  /\ UNCHANGED <<acc, carry, overflow, memory>>
                  /\ Cardinality({c \in {"Zero", "Positive", "Negative"} : Holds(c)}) = 1]_vars

\* BSC on Overflow branched to the last word of memory with acc = 0x8000, and a
\* BSC before it did not branch
C16_Witness ==
    /\ IsExecute(op) /\ IsOk(ret)
    /\ op.instr = [op |-> "BSC", addr |-> 4095, condition |-> "Overflow"]
    /\ overflow /\ ~carry /\ acc = 32768
    /\ iar = 4095 /\ nops = 2 /\ instruction_count = 2

\* C17: a successful execute(BSI{addr}) leaves memory[addr] = the iar before the
\* call and iar = addr + 1, and every other memory word, acc, ext, carry,
\* overflow and halted as they were; with addr = 1 the word stored is the new
\* XR1.
C17_BranchAndStore ==
    [][(IsExecute(op') /\ op'.instr.op = "BSI" /\ IsOk(ret'))
           => LET addr == op'.instr.addr
              IN  /\ Get(memory', addr) = iar
                  /\ iar' = addr + 1
                  /\ MemoryUnchangedOutside({addr})
                  /\ UNCHANGED <<acc, ext, carry, overflow, halted>>
                  /\ addr = 1 => read_xr1(Self)' = iar]_vars

\* BSI 1 from iar = 4095: XR1 holds the return address, iar is 2
C17_Witness ==
    /\ IsExecute(op) /\ IsOk(ret)
    /\ op.instr = [op |-> "BSI", addr |-> 1]
    /\ Get(memory, 1) = 4095 /\ iar = 2
    /\ Get(memory, 32) = 65535

\* C14: execute(SLA{count}) on a CpuState that is not halted returns Ok for
\* every acc and every count of a u8 and leaves acc = (acc * 2^count) mod 2^16,
\* which is 0 for every count >= 16; carry and overflow are as before.
C14_ShiftLeft ==
    [][(~halted /\ IsExecute(op') /\ op'.instr.op = "SLA")
           => LET count == op'.instr.count
              IN  /\ IsOk(ret')
                  /\ acc' = IF count >= 16 THEN 0 ELSE (acc * Pow2(count)) % 65536
                  /\ UNCHANGED <<carry, overflow>>]_vars

\* C15: execute(SRA{count}) on a CpuState that is not halted returns Ok for
\* every acc and every count of a u8 and leaves acc = the 16-bit two's
\* complement of floor(signed(acc) / 2^count), which for every count >= 16 is
\* 0xFFFF when acc is negative and 0 otherwise; carry and overflow are as before.
C15_ShiftRight ==
    [][(~halted /\ IsExecute(op') /\ op'.instr.op = "SRA")
           => LET count == op'.instr.count
                  q == IF count >= 16
                       THEN (IF Signed(acc) < 0 THEN -1 ELSE 0)
                       ELSE Signed(acc) \div Pow2(count)
              IN  /\ IsOk(ret')
                  /\ acc' = q % 65536
                  /\ UNCHANGED <<carry, overflow>>]_vars

\* the variant the claim assigns to the top 4 bits of a word
VariantOf(top) ==
    <<"NOP", "LD", "STO", "LDX", "STX", "A", "S", "AND", "OR", "SLA", "SRA",
      "BSC", "BSI", "none", "none", "WAIT">>[top + 1]

\* C20: decode_instruction returns on every one of the 65536 words; it returns
\* an error exactly when the top 4 bits are 0xD or 0xE, or are 0xB with bits
\* 11-8 greater than 5, and on every other word an instruction of the variant
\* of its top 4 bits.
C20_DecodeTotal ==
    decoded # NoRet
        => LET w == word.val
               top == w \div 4096
               mid == (w \div 256) % 16
           IN  IF top \in {13, 14} \/ (top = 11 /\ mid > 5)
               THEN ~IsOk(decoded)
               ELSE IsOk(decoded) /\ decoded.val.op = VariantOf(top)

\* the word 0xB6FF, a BSC with condition code 6, was refused
C20_Witness ==
    /\ word = OkVal(\hB6FF)
    /\ decoded = InvalidCondition(6)

\* what each line of AsmLines is, read by hand: the Instruction of an
\* instruction line, the operand of an ORG line, the error of a malformed line
InstrLines == {Line_LD, Line_WAIT, Line_sto}
OrgLines == {Line_ORG, Line_ORGLast}
BadLines == {Line_FOO, Line_LD0, Line_ORGAlone, Line_BSCQ}

InstructionOf(l) ==
    CASE l = Line_LD -> [op |-> "LD", addr |-> 16, mode |-> Direct]
      [] l = Line_WAIT -> [op |-> "WAIT"]
      [] l = Line_sto -> [op |-> "STO", addr |-> 5, mode |-> Indexed]

OrgOperand(l) ==
    CASE l = Line_ORG -> 32
      [] l = Line_ORGLast -> 65535

ErrorOf(l) ==
    CASE l = Line_FOO -> InvalidMnemonic(<<"F", "O", "O">>)
      [] l = Line_LD0 -> MissingOperand(<<"L", "D">>)
      [] l = Line_ORGAlone -> SyntaxError("ORG directive requires an address")
      [] l = Line_BSCQ -> InvalidCondition(<<"Q">>)

SourceLines == lines(source)
BadPlaces == {k \in 1 .. Len(SourceLines) : SourceLines[k] \in BadLines}
InstrPlaces == {k \in 1 .. Len(SourceLines) : SourceLines[k] \in InstrLines}
\* the place of the i-th instruction line
Place(i) == CHOOSE k \in InstrPlaces : Cardinality({j \in InstrPlaces : j < k}) = i - 1
\* the operand of the last ORG line before place k (or the cursor of a fresh
\* Assembler) plus the number of instruction lines since
CursorAt(k) ==
    LET orgs == {j \in 1 .. k - 1 : SourceLines[j] \in OrgLines}
        last == CHOOSE j \in orgs : \A x \in orgs : x <= j
    IN  IF orgs = {}
        THEN PROGRAM_START + Cardinality({x \in InstrPlaces : x < k})
        ELSE OrgOperand(SourceLines[last])
                 + Cardinality({x \in InstrPlaces : last < x /\ x < k})

\* C18: when some line of the source is malformed, assemble returns the error
\* of the first malformed line (so no AssembledProgram), whatever lines precede
\* or follow it; the error of 'FOO 0 1' is InvalidMnemonic.
C18_FailFast ==
    (assembled.tag # "None" /\ BadPlaces # {})
        => LET first == CHOOSE k \in BadPlaces : \A x \in BadPlaces : k <= x
               err == ErrorOf(SourceLines[first])
           IN  assembled.tag = err.tag /\ assembled.val = err.val

\* C19: a successful assemble returns code and listing of the length of the
\* number of instruction lines; listing[i].opcode = code[i] = encode_instruction
\* of the i-th instruction line; listing[i].address = the operand of the last
\* ORG line before it (the initial cursor if none) plus the number of
\* instruction lines since.
C19_Listing ==
    IsOk(assembled)
        => LET code == assembled.val.code
               listing == assembled.val.listing
               n == Cardinality(InstrPlaces)
           IN  /\ Len(code) = n
               /\ Len(listing) = n
               /\ \A i \in 1 .. n :
                     /\ code[i] = encode_instruction(InstructionOf(SourceLines[Place(i)])).val
                     /\ listing[i].opcode = code[i]
                     /\ listing[i].address = CursorAt(Place(i))

\* C13: the program 'LD 0 0x10 / A 0 0x11 / STO 0 0x12 / WAIT', assembled by a
\* fresh Assembler and loaded at address 4 into a fresh CpuState with
\* memory[0x10] = 15 and memory[0x11] = 27, driven from the initial iar by the
\* loop of the test (budget 20), reaches halted with memory[0x12] = 42.
C13_RunsToHalt ==
    (load_addr = 4 /\ max_cycles = 20 /\ source = AddProgram)
        => <>(halted /\ Get(memory, 18) = 42)

\* the step of the loop that fetches a WAIT from memory[iar] and executes it
ExecutesWait ==
    /\ cycles_run' = cycles_run + 1
    /\ LET d == decode_instruction(Get(memory, iar))
       IN  IsOk(d) /\ d.val.op = "WAIT"

\* C21, as stated: the increment_iar after execute is skipped when the
\* instruction halted the CPU, so after the loop executes a WAIT fetched from
\* address a the CPU is halted with iar = a.
C21_WaitKeepsIar ==
    [][ExecutesWait => halted' /\ iar' = iar]_vars

\* C21, amended: the increment_iar after execute is made whatever the
\* instruction was.  After the loop executes a WAIT fetched from address a the
\* CPU is halted with iar = a + 1 when a < 4095; when a = 4095 the increment
\* fails, iar stays 4095 and the loop ends with IarOutOfBounds(4096).
C21_WaitAdvancesIar ==
    [][ExecutesWait =>
          /\ halted'
          /\ IF iar < MEMORY_SIZE - 1
             THEN iar' = iar + 1 /\ outcome' = outcome
             ELSE iar' = iar /\ outcome' = IarOutOfBounds(MEMORY_SIZE)]_vars

\* a WAIT loaded at 4094 was executed: halted one word further on
C21_Witness ==
    /\ halted
    /\ cycles_run = 1
    /\ load_addr = MEMORY_SIZE - 2
    /\ Get(memory, load_addr) = 61440
    /\ iar = MEMORY_SIZE - 1
    /\ outcome.tag = "None"

\* the first of read_word(iar), decode_instruction, execute and increment_iar
\* that does not return Ok in an iteration made from the current state, NoRet
\* when all four return Ok
FirstFailure ==
    LET fetched == read_word(Self, iar)
    IN  IF ~IsOk(fetched.r) THEN fetched.r
        ELSE LET d == decode_instruction(fetched.r.val)
             IN  IF ~IsOk(d) THEN d
                 ELSE LET done == execute(Self, d.val)
                      IN  IF ~IsOk(done.r) THEN done.r
                          ELSE LET moved == increment_iar(done.s)
                               IN  IF ~IsOk(moved.r) THEN moved.r ELSE NoRet

\* C22: run(max_cycles) ends; it makes at most max_cycles iterations and so
\* executes at most max_cycles instructions; once the CPU is halted it neither
\* fetches nor executes (run on a halted CPU returns Ok with the CpuState
\* unchanged); the first read, decode, execute or increment_iar failure ends
\* the loop with that failure, and nothing is done after the loop has ended.
C22_RunTerminates ==
    /\ <>(outcome.tag # "None")
    /\ [](instruction_count <= cycles_run /\ cycles_run <= max_cycles)
    /\ [][/\ outcome.tag = "None"
          /\ halted => cpu' = cpu /\ cycles_run' = cycles_run /\ outcome' = OkUnit
          /\ cycles_run' # cycles_run =>
                /\ cycles_run' = cycles_run + 1
                /\ outcome' = FirstFailure
                /\ IsOk(read_word(Self, iar).r) /\ FirstFailure.tag = "None"
                      => instruction_count' = instruction_count + 1]_vars

\* the second instruction has no decoding: the loop ended there, with one
\* instruction executed and one iteration of the budget unused
C22_Witness ==
    /\ outcome = InvalidMnemonic(13)
    /\ cycles_run = 2
    /\ instruction_count = 1
    /\ max_cycles = 3

\* C23: carry and overflow are changed only by an execute of A or S that
\* returns Ok and by reset and hard_reset: every other execute, and every
\* execute that fails, leaves both flags as they were.
C23_FlagsFrame ==
    [][(carry' # carry \/ overflow' # overflow)
          => \/ IsExecute(op') /\ op'.instr.op \in {"A", "S"} /\ IsOk(ret')
             \/ IsReset(op')]_vars

\* both flags are set and an AND has just been executed
C23_Witness ==
    /\ carry /\ overflow
    /\ IsExecute(op) /\ op.instr.op = "AND" /\ IsOk(ret)

\* C24: no instruction changes ext: after every execute, of any instruction
\* from any state, failed or not, ext is what it was before, so ext changes
\* only at reset, hard_reset and write_ext.
C24_ExtFrame ==
    [][IsExecute(op') => ext' = ext]_vars

\* ext is not zero after three instructions were executed
C24_Witness ==
    /\ ext = 48879
    /\ executed = 3
    /\ IsExecute(op) /\ op.instr.op = "SRA"

\* the value a call that returned Ok has written to memory[1]: the set is
\* empty when the call writes no word at address 1
WrittenToXR1(o) ==
    CASE o.name = "write_word" /\ o.addr = XR1_ADDR -> {o.value}
      [] o.name = "load_program" /\ o.addr <= XR1_ADDR
                                 /\ XR1_ADDR < o.addr + Len(o.data)
            -> {o.data[XR1_ADDR - o.addr + 1]}
      [] IsExecute(o) /\ o.instr.op = "STO"
                      /\ effective_address(Self, o.instr.addr, o.instr.mode) = XR1_ADDR
            -> {acc}
      [] IsExecute(o) /\ o.instr.op = "STX" /\ o.instr.addr = XR1_ADDR
            -> {Get(memory, XR1_ADDR)}
      [] IsExecute(o) /\ o.instr.op = "BSI" /\ o.instr.addr = XR1_ADDR -> {iar}
      [] IsExecute(o) /\ o.instr.op = "LDX" -> {Get(memory, o.instr.addr)}
      [] OTHER -> {}

\* C25: XR1 is memory word 1: read_xr1() is read_word(1) in every state, and
\* the effective address of an Indexed instruction is addr + memory[1] mod
\* 2^16; a STO, STX or BSI at address 1, write_word(1, v) and a load_program
\* over address 1 set XR1 to the word they write; LDX addr sets memory[1] to
\* memory[addr]; STX addr sets memory[addr] to memory[1].
C25_XR1IsMemoryWord1 ==
    /\ [](/\ read_word(Self, XR1_ADDR).r = OkVal(read_xr1(Self))
          /\ \A a \in Addrs :
                effective_address(Self, a, Indexed) = (a + Get(memory, XR1_ADDR)) % U16)
    /\ [][IsOk(ret') /\ nops' = nops + 1 =>
             /\ \A v \in WrittenToXR1(op') : Get(memory', XR1_ADDR) = v
             /\ IsExecute(op') /\ op'.instr.op = "STX"
                   => Get(memory', op'.instr.addr) = Get(memory, XR1_ADDR)]_vars

\* STO 0 1 has set XR1 to 0xFFFF, the accumulator loaded by an indexed LD
C25_Witness ==
    /\ IsExecute(op) /\ IsOk(ret)
    /\ op.instr = [op |-> "STO", addr |-> 1, mode |-> Direct]
    /\ acc = 65535
    /\ read_xr1(Self) = 65535
    /\ effective_address(Self, 4096, Indexed) = 4095

\* the ways of writing each condition name, in either letter case
ConditionNames ==
    [Zero |-> {<<"Z">>, <<"z">>},
     NonZero |-> {<<"N", "Z">>, <<"N", "z">>, <<"n", "Z">>, <<"n", "z">>},
     Positive |-> {<<"P">>, <<"p">>},
     Negative |-> {<<"N">>, <<"n">>},
     Overflow |-> {<<"V">>, <<"v">>},
     Carry |-> {<<"C">>, <<"c">>}]

\* C26: BranchCondition::parse returns Some(c) for the name of c (Z, NZ, P, N,
\* V, C) written in any letter case and None for every other text;
\* parse(to_str(c)) is Some(c) for each of the six conditions, and no two
\* conditions have the same to_str.
C26_ConditionNames ==
    /\ parse_ret.tag # "None"
          => \A c \in BranchCondition :
                (parse_ret.tag = "Ok" /\ parse_ret.val = c) <=> token \in ConditionNames[c]
    /\ \A c \in BranchCondition :
          LET back == parse_condition(to_str(c))
          IN  back.tag = "Ok" /\ back.val = c
    /\ \A c, d \in BranchCondition : to_str(c) = to_str(d) => c = d

\* "nZ" was parse_ret as NonZero
C26_Witness ==
    /\ token = <<"n", "Z">>
    /\ parse_ret.tag = "Ok" /\ parse_ret.val = "NonZero"

\* C27: every assemble call on an Assembler starts with the cursor at
\* PROGRAM_START, whatever the earlier calls on it were: a successful call
\* returns start_addr = PROGRAM_START and the listing a new Assembler returns
\* for the same text.
C27_FreshCursor ==
    [][(assemblies' = assemblies + 1 /\ IsOk(assembled'))
          => /\ assembled'.val.start_addr = PROGRAM_START
             /\ assembled'.val.listing
                    = assemble(new_assembler, source').r.val.listing]_vars

\* C28: for a word whose top 4 bits are those of LD, STO, A, S, AND or OR,
\* decode_instruction returns the mode Indexed exactly when bit 8 of the word
\* is 1, whatever bits 11-9 are.
C28_ModeIsBit8 ==
    (decoded.tag # "None" /\ word.val \div 4096 \in {1, 2, 5, 6, 7, 8})
        => /\ IsOk(decoded)
           /\ decoded.val.mode = Indexed <=> (word.val \div 256) % 2 = 1

\* C29: increment_iar returns Ok with iar' = iar + 1 exactly when iar < 4095;
\* at iar = 4095 it returns IarOutOfBounds(4096) and iar stays 4095; it never
\* leaves iar at 0, the sum wrapped modulo 2^16.
C29_IncrementIar ==
    [][op'.name = "increment_iar"
          => /\ IsOk(ret') <=> iar < MEMORY_SIZE - 1
             /\ IsOk(ret') => iar' = iar + 1
             /\ iar = MEMORY_SIZE - 1 => ret' = IarOutOfBounds(MEMORY_SIZE) /\ iar' = iar
             /\ iar' # 0]_vars

\* increment_iar was refused at the last word of memory
C29_Witness ==
    /\ op.name = "increment_iar"
    /\ ret = IarOutOfBounds(MEMORY_SIZE)
    /\ iar = MEMORY_SIZE - 1
    /\ nops = 2

\* the first token of a line that begins with it
FirstToken(line) ==
    LET ws == {k \in 1 .. Len(line) : line[k] \in WhiteSpace}
    IN  IF ws = {} THEN line
        ELSE SubSeq(line, 1, (CHOOSE k \in ws : \A j \in ws : k <= j) - 1)

\* the number of tokens of a line: the places where a token begins
TokenCount(line) ==
    Cardinality({k \in 1 .. Len(line) :
                    /\ line[k] \notin WhiteSpace
                    /\ k = 1 \/ line[k - 1] \in WhiteSpace})

\* the mnemonic the first token of the line spells, "none" if none
SpelledBy(line) ==
    (CHOOSE sp \in LineSpellings : sp[1] = FirstToken(line))[2]

\* C30: an instruction line with the mnemonic LD, STO, A, S, AND, OR or BSC and
\* fewer than two operand tokens, or LDX, STX, SLA, SRA or BSI and no operand
\* token, is refused with MissingOperand of that mnemonic, whatever the
\* operand that is there; with enough operand tokens the error is never
\* MissingOperand; WAIT and NOP are accepted with no operand; any other first
\* token is refused with InvalidMnemonic; the letter case of the mnemonic does
\* not matter.
C30_OperandCount ==
    parse_ret.tag # "None"
        => LET o == SpelledBy(token)
               n == TokenCount(token) - 1
               needed == IF o \in ModeOps \cup {"BSC"} THEN 2
                         ELSE IF o \in AddrOps \cup ShiftOps THEN 1 ELSE 0
           IN  IF o = "none" THEN parse_ret.tag = "InvalidMnemonic"
               ELSE IF n < needed
               THEN parse_ret.tag = "MissingOperand" /\ parse_ret.val = MnemonicText[o]
               ELSE /\ parse_ret.tag \notin {"MissingOperand", "InvalidMnemonic"}
                    /\ o \in {"WAIT", "NOP"}
                          => IsOk(parse_ret) /\ parse_ret.val = [op |-> o]

\* "b s c Q": one operand token, not a condition, and MissingOperand("BSC")
C30_Witness ==
    /\ token = <<"b", "s", "c", " ", "Q">>
    /\ parse_ret.tag = "MissingOperand"
    /\ parse_ret.val = <<"B", "S", "C">>

\* what the first token of the source is: ORG, DATA, a mnemonic or "none"
LeadingToken ==
    (CHOOSE sp \in DirectiveSpellings : sp[1] = FirstToken(source))[2]

\* C31: a line is a directive only when its first token is exactly ORG or
\* DATA in any letter case; any other line is parsed as an instruction: when
\* its first token is no mnemonic assemble returns InvalidMnemonic, and it
\* never returns an error of a directive.
C31_DirectiveByToken ==
    (assembled.tag # "None" /\ LeadingToken \notin {"ORG", "DATA"})
        => /\ LeadingToken = "none" => assembled.tag = "InvalidMnemonic"
           /\ assembled.tag \notin {"SyntaxError", "InvalidDataAddress", "InvalidDataValue"}

\* the instruction the next iteration of the loop fetches from memory[iar]
Fetched == decode_instruction(Get(memory, iar))
\* an iteration of the loop is made
Iterates == cycles_run' = cycles_run + 1

\* C32: one iteration of the loop on a BSI addr leaves memory[addr] = the
\* address the BSI was fetched from and iar = addr + 2; one iteration on a
\* BSC addr whose condition holds leaves iar = addr + 1: the loop goes on one
\* word after the place execute branched to.
C32_BranchThenIncrement ==
    [][(Iterates /\ IsOk(Fetched) /\ Fetched.val.op \in {"BSI", "BSC"})
          => LET i == Fetched.val
             IN  /\ i.op = "BSI"
                       => /\ Get(memory', i.addr) = iar
                          /\ iar' = i.addr + 2
                          /\ outcome' = outcome
                 /\ i.op = "BSC" /\ Holds(i.condition)
                       => iar' = i.addr + 1 /\ outcome' = outcome]_vars

\* BSI 0x20 fetched from 0x10: the return address is at 0x20, the loop at 0x22
C32_Witness ==
    /\ cycles_run = 1
    /\ load_addr = PROGRAM_START
    /\ Get(memory, PROGRAM_START) = 49184
    /\ Get(memory, 32) = PROGRAM_START
    /\ iar = 34
    /\ outcome.tag = "None"

\* C33: halted becomes true only by an execute of WAIT that returns Ok and by
\* halt(), and false only by reset, hard_reset and resume; set_iar,
\* increment_iar, read_word, write_word and load_program are not refused on a
\* halted CpuState and do there what they do on any other.
C33_HaltedLatch ==
    [][/\ (~halted /\ halted')
             => \/ IsExecute(op') /\ op'.instr.op = "WAIT" /\ IsOk(ret')
                \/ op'.name = "halt"
       /\ (halted /\ ~halted') => IsReset(op') \/ op'.name = "resume"
       /\ (halted /\ nops' = nops + 1)
             => /\ ret'.tag = "Halted" <=> IsExecute(op')
                /\ op'.name = "set_iar" /\ op'.addr < MEMORY_SIZE
                      => IsOk(ret') /\ iar' = op'.addr
                /\ op'.name = "increment_iar" /\ iar < MEMORY_SIZE - 1
                      => IsOk(ret') /\ iar' = iar + 1
                /\ op'.name = "read_word" /\ op'.addr < MEMORY_SIZE
                      => ret' = OkVal(Get(memory, op'.addr))
                /\ op'.name = "write_word" /\ op'.addr < MEMORY_SIZE
                      => IsOk(ret') /\ Get(memory', op'.addr) = op'.value
                /\ op'.name = "load_program" /\ op'.addr + Len(op'.data) <= MEMORY_SIZE
                      => /\ IsOk(ret')
                         /\ \A k \in 1 .. Len(op'.data) :
                               Get(memory', op'.addr + k - 1) = op'.data[k]]_vars

\* a word was read from the CpuState a WAIT had halted, which is halted still
C33_Witness ==
    /\ halted /\ waited
    /\ op.name = "read_word" /\ op.addr = 1
    /\ ret = OkVal(65535)

\* the components of a CpuState, in the order of cpu
Components(s) ==
    <<s.acc, s.ext, s.iar, s.carry, s.overflow, s.memory, s.halted,
      s.cycle_count, s.instruction_count>>

\* C34: hard_reset leaves a CpuState equal to CpuState::new() in every
\* component, whatever the state before; the execute that follows it returns
\* what it returns on a new CpuState and leaves the state it leaves there.
C34_HardResetIsNew ==
    [][/\ op'.name = "hard_reset" => cpu' = Components(new)
       /\ (op.name = "hard_reset" /\ IsExecute(op'))
             => LET fresh == execute(new, op'.instr)
                IN  ret' = fresh.r /\ cpu' = Components(fresh.s)]_vars

\* hard_reset was the third call on the CpuState
C34_Witness ==
    /\ op.name = "hard_reset"
    /\ nops = 3
    /\ cpu = Components(new)
    /\ ~waited

\* C35: an instruction decode_instruction returns has addr <= 0xFF, so in the
\* loop execute returns an error on a CpuState that is not halted only for LD,
\* STO, A, S, AND or OR in Indexed mode with (addr + XR1) mod 2^16 >= 4096;
\* decoded LDX, STX, BSC and BSI never fail, and no word of memory above
\* address 255 is changed but by an Indexed STO.
C35_DecodedAddressByte ==
    [][(Iterates /\ IsOk(Fetched))
          => LET i == Fetched.val
                 ea == (i.addr + Get(memory, XR1_ADDR)) % U16
             IN  /\ HasAddr(i) => i.addr <= 255
                 /\ outcome'.tag \in {"MemoryOutOfBounds", "IarOutOfBounds", "Halted"}
                       => /\ i.op \in ModeOps /\ i.mode = Indexed /\ ea >= MEMORY_SIZE
                          /\ outcome' = MemoryOutOfBounds(ea)
                 /\ i.op \in {"LDX", "STX", "BSC", "BSI"} => outcome' = outcome
                 /\ (\E x \in (DOMAIN memory \cup DOMAIN memory') :
                        x > 255 /\ Get(memory', x) # Get(memory, x))
                       => i.op = "STO" /\ i.mode = Indexed]_vars

\* STO 1 0xFF with XR1 = 3840 has written the accumulator to the last word of
\* memory
C35_Witness ==
    /\ cycles_run = 1
    /\ Get(memory, PROGRAM_START) = 8703
    /\ Get(memory, XR1_ADDR) = 3840
    /\ Get(memory, MEMORY_SIZE - 1) = 1
    /\ outcome.tag = "None"

\* C36: execute changes iar only for a BSC whose condition holds (iar' = addr)
\* and for a BSI (iar' = addr + 1); every other execute, WAIT, NOP, a BSC whose
\* condition does not hold and a STO to any address among them, leaves iar as
\* it was, and so does every execute that fails.
C36_IarFrame ==
    [][IsExecute(op')
          => LET i == op'.instr
             IN  IF IsOk(ret') /\ i.op = "BSI" THEN iar' = i.addr + 1
                 ELSE IF IsOk(ret') /\ i.op = "BSC" /\ Holds(i.condition)
                 THEN iar' = i.addr
                 ELSE iar' = iar]_vars

\* a STO at address 1 after a BSI 1: iar is where the BSI left it
C36_Witness ==
    /\ IsExecute(op) /\ IsOk(ret)
    /\ op.instr = [op |-> "STO", addr |-> 1, mode |-> Direct]
    /\ executed = 2
    /\ iar = 2

OkOnlyWhenDone ==
    IsOk(outcome)
        => halted \/ (cycles_run = max_cycles /\ instruction_count = max_cycles)

\* the two words of a program loaded at 4094, which no instruction of
\* LoopWords overwrites, decoded
LastWords ==
    {decode_instruction(Get(memory, a)) : a \in {MEMORY_SIZE - 2, MEMORY_SIZE - 1}}

\* an instruction that executes with Ok in the current state and leaves iar
\* and halted alone
StraightLine(i) ==
    \/ i.op = "NOP"
    \/ i.op \in ModeOps /\ (i.mode = Indexed
                               => (i.addr + Get(memory, XR1_ADDR)) % U16 < MEMORY_SIZE)
    \/ i.op \in ShiftOps /\ (i.count < 16 \/ ~overflow_checks)
    \/ i.op \in {"LDX", "STX"}
    \/ i.op = "BSC" /\ ~Holds(i.condition)

\* C38, as stated: run returns Ok only on a halted CpuState or after exactly
\* max_cycles instructions; and when the words from iar upward all decode and
\* none is a WAIT, run with max_cycles > 4095 - iar does not return Ok.
C38_OkMeansDone ==
    /\ OkOnlyWhenDone
    /\ (/\ outcome.tag # "None" /\ ~halted
        /\ load_addr = MEMORY_SIZE - 2
        /\ max_cycles > 1
        /\ \A d \in LastWords : IsOk(d) /\ d.val.op # "WAIT")
          => ~IsOk(outcome)

\* C38, amended: run returns Ok only on a halted CpuState or after exactly
\* max_cycles instructions; and when the words from iar upward all decode to
\* instructions that execute with Ok and leave iar and halted alone, run with
\* max_cycles > 4095 - iar returns IarOutOfBounds(4096).
C38_OkMeansDoneStraight ==
    /\ OkOnlyWhenDone
    /\ (/\ outcome.tag # "None" /\ ~halted
        /\ load_addr = MEMORY_SIZE - 2
        /\ max_cycles > 1
        /\ \A d \in LastWords : IsOk(d) /\ StraightLine(d.val))
          => outcome = IarOutOfBounds(MEMORY_SIZE)

\* STO 0 0x10 and a BSC Z that is not taken, at 4094 and 4095, budget 3: run
\* has returned IarOutOfBounds(4096) after two instructions
C38_Witness ==
    /\ outcome = IarOutOfBounds(MEMORY_SIZE)
    /\ Get(memory, MEMORY_SIZE - 2) = 8208
    /\ Get(memory, MEMORY_SIZE - 1) = 45088
    /\ acc = 1
    /\ max_cycles = 3
    /\ instruction_count = 2
    /\ ~halted

\* C39: after WasmCpu::assemble has returned Ok, the word of memory at the
\* address of every line of the listing is the opcode of that line, also when
\* ORG directives move the cursor before or between the instruction lines.
C39_ListingMatchesMemory ==
    IsOk(assembled)
        => \A k \in 1 .. Len(assembled.val) :
              LET l == assembled.val[k]
              IN  /\ l.address < MEMORY_SIZE
                  /\ format_hex4(Get(memory, l.address)) = l.opcode

====
